---- MODULE Spec2Model ----
(***************************************************************************)
(* A model of kazuka.                                                      *)
(*                                                                         *)
(* Spec: the engine (crates/kazuka-core/src/engine.rs): event sources,     *)
(* strategies and executors wired by two tokio broadcast channels, with    *)
(* one task per component.  Each action is one segment of a task between   *)
(* two suspension points (or one synchronous call whose interleaving with  *)
(* other worker threads is observable, such as a broadcast send).          *)
(*                                                                         *)
(* SseSpec: the SSE client (crates/kazuka-mev-share-sse/src/client.rs):    *)
(* EventClient, the EventStream it hands out, and poll_next's state        *)
(* machine, one action per arm of its loop.                                *)
(*                                                                         *)
(* AuthSpec: the signing middleware (crates/kazuka-mev-share-rpc-api/src/  *)
(* middleware/auth.rs): AuthService::call and the future it returns.       *)
(*                                                                         *)
(* EsmSpec, ExmSpec: the mappers (crates/kazuka-core/src/types.rs):        *)
(* EventSourceMap with the consumer of its stream, ExecutorMap with its    *)
(* caller.                                                                 *)
(*                                                                         *)
(* SerdeSpec: the MEV-share event types (crates/kazuka-mev-share-sse/src/  *)
(* types.rs): the Serialize and Deserialize implementations of Event and   *)
(* EventTransaction, and of PrivacyHint (crates/kazuka-mev-share-rpc-api/  *)
(* src/types/core.rs), each applied to one input drawn from a bounded set. *)
(*                                                                         *)
(* ArbSpec, MevSpec: the arbitrage strategy and its bundle executor        *)
(* (crates/strategies/kazuka-mev-share-arbitrage/src/strategy.rs and       *)
(* executor.rs), one action per segment between two awaits.                *)
(*                                                                         *)
(* MempoolSpec: the mempool executor (crates/kazuka-core/src/executors/    *)
(* mempool_executor.rs), with U128 at a width that can be enumerated.      *)
(*                                                                         *)
(* The specifications share Init; the actions of each leave the variables  *)
(* of the others unchanged.                                                *)
(***************************************************************************)
EXTENDS Integers, Sequences, FiniteSets, TLC

\* ---------------------------------------------------------------- bounds
MaxSources == 2
MaxStrategies == 2
MaxExecutors == 2
\* components registered with one engine in total
MaxComponents == 5
\* number of events the sources' finite streams hold in total
MaxEvents == 2
\* number of actions the process_event calls of one run return in total
MaxActions == 2
\* capacity of the event channel and of the action channel, scaled down from
\* DEFAULT_CHANNEL_CAPACITY = 512 (tokio rounds a capacity up to a power of two)
EventCap == 1
ActionCap == 1

SourceIds == 1..MaxSources
StrategyIds == 1..MaxStrategies
ExecutorIds == 1..MaxExecutors

VARIABLES
    \* Engine fields: event_sources (each a finite stream length), strategies, executors
    event_sources, strategies, executors,
    \* position of run(): "build", "executors", "strategies", "syncing", "sources", "ok", "err"
    runpc,
    \* index of the component the current for-loop of run() is at
    runIdx,
    \* the JoinSet has aborted its tasks (dropped on the error path, or shutdown())
    aborted,
    \* per-task positions
    srcpc, stratpc, execpc,
    \* number of items a source task has pulled from its stream and sent
    emitted,
    \* broadcast channels: every value stored so far; the last Cap are retained
    evlog, actlog,
    \* per-receiver cursor: number of channel positions consumed or skipped
    evnext, actnext,
    \* strategy task locals: event being processed, actions still to send
    curEvent, pending,
    \* executor task local: action being executed
    curAction,
    \* observations (history): what each component was called with
    synced,       \* strategies whose sync_state returned Ok, in order
    processed,    \* events passed to process_event, per strategy
    returned,     \* actions returned by process_event, flattened, per strategy
    sentActs,     \* actions passed to action_sender.send, per strategy
    executed,     \* actions passed to execute, per executor
    failed,       \* actions whose execute returned Err, per executor
    evLagged, actLagged,   \* values skipped by Lagged errors, per receiver
    evClosedSeen, actClosedSeen,   \* the receiver observed RecvError::Closed
    \* more unread values than the capacity were in flight for the receiver
    evOverrun, actOverrun

\* ------------------------------------------------------------------------
\* The SSE client (crates/kazuka-mev-share-sse/src/client.rs): one
\* EventClient and the EventStream it hands out.
VARIABLES
    \* EventClient::max_retries: NoCap (None) or a number
    client_max_retries,
    \* EventStream::state: "Unsubscribed" (no stream yet), "Active", "Retry",
    \* "End", "Taken" (the Option is None), "Panicked"
    sse_state,
    \* EventStreamInner: num_retries, endpoint, query, event_client.max_retries
    num_retries, endpoint, query, max_retries,
    \* the future held by State::Retry: its clone of the inner counter and
    \* endpoint, where it is ("none", "sleep", "connect"), time left to sleep,
    \* and the GET it is waiting for
    fut_retries, fut_endpoint, fut_phase, timer, fut_get,
    \* the GET whose response the Active state decodes (index into gets)
    conn,
    \* "idle", or "loop" inside poll_next after a `continue`
    pollpc,
    \* what the last poll_next call returned: "none", "Pending", "Ready", "panic"
    lastPoll,
    \* observations (history)
    ngets,      \* number of GET requests issued
    lastGet,    \* the last GET request issued
    nframes,    \* number of frames the decoders have handed to poll_next
    directives, \* number of retry directives among them
    served,     \* what the decoder of the latest connection handed out, in order
    yielded,    \* the items poll_next returned Ready with since that
                \* connection was made, in order
    ncalls,     \* number of manual retry / retry_with / reset_retries calls
    lastCall,   \* the last of them and its result
    callsSeen   \* the results such calls have had

sseVars == <<client_max_retries, sse_state, num_retries, endpoint, query,
             max_retries, fut_retries, fut_endpoint, fut_phase, timer,
             fut_get, conn, pollpc, lastPoll, ngets, lastGet, nframes,
             directives, served, yielded, ncalls, lastCall, callsSeen>>

\* ------------------------------------------------------------------------
\* The signing middleware (crates/kazuka-mev-share-rpc-api/src/middleware/
\* auth.rs): one AuthService in front of an inner service.
VARIABLES
    \* where the future returned by call() is: "idle" (no call in flight),
    \* "pass", "collect", "sign", "forward"
    auth_phase,
    \* the parts and the body the future holds
    auth_parts, auth_body,
    \* observations (history)
    auth_in,       \* the request the latest call() was given
    inner_calls,   \* the requests the inner service was called with for it
    signer_calls,  \* the messages the signer was asked to sign for it
    auth_results   \* how each call completed: "Ok", "Err" or "panic"

authVars == <<auth_phase, auth_parts, auth_body, auth_in, inner_calls,
              signer_calls, auth_results>>

\* ------------------------------------------------------------------------
\* The mappers (crates/kazuka-core/src/types.rs): one EventSourceMap around
\* an inner event source and one ExecutorMap around an inner executor.
VARIABLES
    \* EventSourceMap: "none" (not built), "new", "streaming" (a mapped
    \* stream was returned), "failed" (get_event_stream returned Err),
    \* "ended" (the mapped stream returned None)
    esm_pc,
    esm_f,       \* the field f: E1 -> E2
    \* observations (history)
    esm_src,     \* the events the inner stream has yielded, in order
    esm_out,     \* the items the mapped stream has yielded, in order
    esm_err,     \* the error the inner get_event_stream returned (0: none)
    esm_result,  \* what get_event_stream of the map returned
    \* ExecutorMap: "none" (not built), "new"
    exm_pc,
    exm_f,       \* the field f: A1 -> Option<A2>
    \* observations (history)
    exm_calls,   \* the actions execute() was called with, in order
    exm_inner,   \* the calls of the inner executor: for which call of
                 \* execute(), with which action, with which result
    exm_results  \* what each execute() returned

mapVars == <<esm_pc, esm_f, esm_src, esm_out, esm_err, esm_result,
             exm_pc, exm_f, exm_calls, exm_inner, exm_results>>

\* ------------------------------------------------------------------------
\* The MEV-share event types (crates/kazuka-mev-share-sse/src/types.rs):
\* the serde implementations, applied to one input at a time.
VARIABLES
    serde_op,   \* the function applied last ("none" before the first)
    serde_in,   \* its input
    serde_out   \* its result

serdeVars == <<serde_op, serde_in, serde_out>>

\* ------------------------------------------------------------------------
\* The arbitrage strategy (strategies/kazuka-mev-share-arbitrage/src/
\* strategy.rs): one MevShareUniswapV2V3Arbitrage and the provider it calls.
VARIABLES
    arb_pc,        \* "none" before new(), "new" before sync_state, "idle"
                   \* between events, else the await process_event is at
    arb_dry_run,   \* the dry_run field
    arb_pools,     \* v3_address_to_v2_pool_info
    arb_event,     \* the event being processed, or processed last
    arb_block,     \* block_num in generate_bundles
    arb_i,         \* index of the size the loop is at
    arb_bundles,   \* the local vector `bundles`
    arb_rpc,       \* provider calls made for arb_event, with their outcome
    arb_out        \* what process_event returned for arb_event

arbVars == <<arb_pc, arb_dry_run, arb_pools, arb_event, arb_block, arb_i,
             arb_bundles, arb_rpc, arb_out>>

\* The bundle executor (strategies/kazuka-mev-share-arbitrage/src/
\* executor.rs): one MevShareExecutor and the relay client it calls.
VARIABLES
    mev_pc,        \* "none" before new(), "idle", or "send_bundle"
    mev_dry_run,   \* the dry_run field
    mev_in,        \* the bundle given to the latest execute
    mev_sent,      \* the bundles given to send_bundle, in order
    mev_answers,   \* what the relay answered, in order
    mev_results    \* what execute returned, in order

mevVars == <<mev_pc, mev_dry_run, mev_in, mev_sent, mev_answers, mev_results>>

\* The mempool executor (kazuka-core/src/executors/mempool_executor.rs):
\* one execute call at a time.
VARIABLES
    mem_pc,        \* "idle", or the await execute is at
    mem_in,        \* the SubmitTxToMempool being executed, or executed last
    mem_gas_usage, \* the gas estimate the provider answered
    mem_market,    \* the gas price the provider answered
    mem_gas_price, \* the gas price set on the transaction
    mem_sent,      \* the transactions given to send_transaction
    mem_result     \* what execute returned

memVars == <<mem_pc, mem_in, mem_gas_usage, mem_market, mem_gas_price,
             mem_sent, mem_result>>

\* the strategy crate and the mempool executor
appVars == <<arbVars, mevVars, memVars>>

\* state of the models of the crates other than the engine
crateVars == <<sseVars, authVars, mapVars, serdeVars, appVars>>

vars == <<event_sources, strategies, executors, runpc, runIdx, aborted,
          srcpc, stratpc, execpc, emitted, evlog, actlog, evnext, actnext,
          curEvent, pending, curAction, synced, processed, returned, sentActs,
          executed, failed, evLagged, actLagged, evClosedSeen, actClosedSeen,
          evOverrun, actOverrun, crateVars>>

NoEvent == [src |-> 0, idx |-> 0]
NoAction == [strat |-> 0, ev |-> NoEvent, k |-> 0]

\* the idx-th item of the stream of source src
EventOf(src, idx) == [src |-> src, idx |-> idx]

\* --------------------------------------------------- tokio broadcast channel
Max(a, b) == IF a >= b THEN a ELSE b

\* a ring that keeps one value fewer than its capacity
OldestEager(log, cap) == Max(0, Len(log) - cap + 1)

\* position of the oldest value the channel still retains
Oldest(log, cap) == Max(0, Len(log) - cap)

\* Receiver::recv: Lagged moves the cursor to the oldest retained value,
\* a value advances it by one, Closed only once the buffer is drained.
Recv(log, next, cap, closed) ==
    IF next < Oldest(log, cap)
    THEN [kind |-> "lagged", missed |-> Oldest(log, cap) - next,
          next |-> Oldest(log, cap)]
    ELSE IF next < Len(log)
    THEN [kind |-> "value", missed |-> 0, next |-> next + 1]
    ELSE IF closed
    THEN [kind |-> "closed", missed |-> 0, next |-> next]
    ELSE [kind |-> "pending", missed |-> 0, next |-> next]

\* a bounded queue whose send waits while some receiver's queue is full
SendBlockedWhenFull(log, cap, nexts) == \E n \in nexts : Len(log) - n >= cap

\* a send that puts the new value in front of the retained ones
SendFront(log, v, receivers) ==
    IF receivers = {} THEN log ELSE <<v>> \o log

\* Sender::send never waits: it stores the value when some receiver is alive
\* and fails (value dropped) when none is.
SendBlocked(log, cap, nexts) == FALSE

Send(log, v, receivers) ==
    IF receivers = {} THEN log ELSE Append(log, v)

\* ------------------------------------------------------------ task liveness
\* A task the JoinSet aborted stops at its next suspension point; a segment
\* already running finishes first.
StrategySuspended(s) == stratpc[s] \in {"subscribed", "spawned", "recv"}
ExecutorSuspended(e) == execpc[e] \in {"spawned", "recv"}
SourceSuspended(i) == srcpc[i] \in {"spawned", "stream"}

\* receivers of the event channel that have not been dropped
EventReceivers ==
    {s \in StrategyIds :
        /\ stratpc[s] # "none"
        /\ ~(aborted /\ StrategySuspended(s))}

ActionReceivers ==
    {e \in ExecutorIds :
        /\ execpc[e] # "none"
        /\ ~(aborted /\ ExecutorSuspended(e))}

\* run() still owns the original senders until it returns
RunReturned == runpc \in {"ok", "err"}

\* every Sender<E> has been dropped
EventChannelClosed ==
    /\ RunReturned
    /\ \A i \in SourceIds :
          srcpc[i] \in {"none", "done"} \/ (aborted /\ SourceSuspended(i))

\* every Sender<A> has been dropped (strategy tasks hold a clone each)
ActionChannelClosed ==
    /\ RunReturned
    /\ \A s \in StrategyIds :
          stratpc[s] = "none" \/ (aborted /\ StrategySuspended(s))

\* no query parameters (None)
NoQuery == 0
\* no retry cap (max_retries: None)
NoCap == -1

NoGet == [endpoint |-> 0, query |-> NoQuery, by |-> "none"]
NoCall == [op |-> "none", res |-> "none"]

\* no X-Flashbots-Signature header
NoSignature == [present |-> FALSE, addr |-> 0, enc |-> "none", body |-> 0]
NoParts == [method |-> "none", uri |-> 0, ctype |-> "absent",
            sig |-> NoSignature, other |-> "absent"]

NoRequest == [method |-> "none", uri |-> 0, ctype |-> "absent",
              sig |-> NoSignature, other |-> "absent", body |-> 0]

\* an AuthService as AuthLayer::layer builds it, before any call
AuthInit ==
    /\ auth_phase = "idle"
    /\ auth_parts = NoParts
    /\ auth_body = 0
    /\ auth_in = NoRequest
    /\ inner_calls = <<>>
    /\ signer_calls = <<>>
    /\ auth_results = <<>>

\* number of distinct inner events (E1) and incoming actions (A1)
MaxIn == 2
\* number of distinct mapped events (E2) and mapped actions (A2)
MaxOut == 2
\* number of distinct errors of the inner source and the inner executor
MaxErrors == 2

E1 == 1..MaxIn
E2 == 1..MaxOut
A1 == 1..MaxIn
A2 == 1..MaxOut
\* Option::None of A2
NoneA2 == 0
\* Result<_, KazukaError>: Ok is 0, Err(e) is the number of e
OkResult == 0
Errors == 1..MaxErrors
Results == {OkResult} \cup Errors

\* no function given yet
NoMapFn == [e \in E1 |-> 0]
\* get_event_stream has not returned
NoStreamResult == [kind |-> "none", err |-> 0]

\* before EventSourceMap::new and ExecutorMap::new
MapInit ==
    /\ esm_pc = "none"
    /\ esm_f = NoMapFn
    /\ esm_src = <<>>
    /\ esm_out = <<>>
    /\ esm_err = 0
    /\ esm_result = NoStreamResult
    /\ exm_pc = "none"
    /\ exm_f = NoMapFn
    /\ exm_calls = <<>>
    /\ exm_inner = <<>>
    /\ exm_results = <<>>

\* no event was given to the strategy yet
NoArbEvent == [hash |-> 0, logs |-> <<>>]

\* before MevShareUniswapV2V3Arbitrage::new
ArbInit ==
    /\ arb_pc = "none"
    /\ arb_dry_run = FALSE
    /\ arb_pools = <<>>
    /\ arb_event = NoArbEvent
    /\ arb_block = 0
    /\ arb_i = 0
    /\ arb_bundles = <<>>
    /\ arb_rpc = <<>>
    /\ arb_out = <<>>

\* Option<u64>
NoneBlock == [some |-> FALSE, val |-> 0]
SomeBlock(n) == [some |-> TRUE, val |-> n]

\* no bundle was given to the executor yet
NoBundle ==
    [protocol_version |-> "none",
     inclusion |-> [block |-> 0, max_block |-> NoneBlock],
     bundle_body |-> <<>>, validity |-> "None", privacy |-> "None"]

\* before MevShareExecutor::new
MevInit ==
    /\ mev_pc = "none"
    /\ mev_dry_run = FALSE
    /\ mev_in = NoBundle
    /\ mev_sent = <<>>
    /\ mev_answers = <<>>
    /\ mev_results = <<>>

\* Option<GasBidInfo>
NoGasBidInfo == [some |-> FALSE, expected_profit |-> 0, bid_percentage |-> 0]

\* no action was given to the mempool executor yet
NoSubmitTx == [tx |-> 0, gas_bid_info |-> NoGasBidInfo]

\* a MempoolExecutor before its first execute
MemInit ==
    /\ mem_pc = "idle"
    /\ mem_in = NoSubmitTx
    /\ mem_gas_usage = 0
    /\ mem_market = 0
    /\ mem_gas_price = 0
    /\ mem_sent = <<>>
    /\ mem_result = "none"

\* before any value is serialized or deserialized
SerdeInit ==
    /\ serde_op = "none"
    /\ serde_in = 0
    /\ serde_out = 0

\* the client as EventClient::new builds it, before any subscribe
SseInit ==
    /\ client_max_retries = NoCap
    /\ sse_state = "Unsubscribed"
    /\ num_retries = 0
    /\ endpoint = 0
    /\ query = NoQuery
    /\ max_retries = NoCap
    /\ fut_retries = 0
    /\ fut_endpoint = 0
    /\ fut_phase = "none"
    /\ timer = 0
    /\ fut_get = 0
    /\ conn = 0
    /\ pollpc = "idle"
    /\ lastPoll = "none"
    /\ ngets = 0
    /\ lastGet = NoGet
    /\ nframes = 0
    /\ directives = 0
    /\ served = <<>>
    /\ yielded = <<>>
    /\ ncalls = 0
    /\ lastCall = NoCall
    /\ callsSeen = {}

\* ------------------------------------------------------------------- Init
Init ==
    /\ event_sources = <<>>
    /\ strategies = 0
    /\ executors = 0
    /\ runpc = "build"
    /\ runIdx = 0
    /\ aborted = FALSE
    /\ srcpc = [i \in SourceIds |-> "none"]
    /\ stratpc = [s \in StrategyIds |-> "none"]
    /\ execpc = [e \in ExecutorIds |-> "none"]
    /\ emitted = [i \in SourceIds |-> 0]
    /\ evlog = <<>>
    /\ actlog = <<>>
    /\ evnext = [s \in StrategyIds |-> 0]
    /\ actnext = [e \in ExecutorIds |-> 0]
    /\ curEvent = [s \in StrategyIds |-> NoEvent]
    /\ pending = [s \in StrategyIds |-> <<>>]
    /\ curAction = [e \in ExecutorIds |-> NoAction]
    /\ synced = <<>>
    /\ processed = [s \in StrategyIds |-> <<>>]
    /\ returned = [s \in StrategyIds |-> <<>>]
    /\ sentActs = [s \in StrategyIds |-> <<>>]
    /\ executed = [e \in ExecutorIds |-> <<>>]
    /\ failed = [e \in ExecutorIds |-> {}]
    /\ evLagged = [s \in StrategyIds |-> 0]
    /\ actLagged = [e \in ExecutorIds |-> 0]
    /\ evClosedSeen = [s \in StrategyIds |-> FALSE]
    /\ actClosedSeen = [e \in ExecutorIds |-> FALSE]
    /\ evOverrun = [s \in StrategyIds |-> FALSE]
    /\ actOverrun = [e \in ExecutorIds |-> FALSE]
    /\ SseInit
    /\ AuthInit
    /\ MapInit
    /\ SerdeInit
    /\ ArbInit
    /\ MevInit
    /\ MemInit

taskVars == <<srcpc, stratpc, execpc, emitted, evlog, actlog, evnext, actnext,
              curEvent, pending, curAction, processed, returned, sentActs,
              executed, failed, evLagged, actLagged, evClosedSeen, actClosedSeen,
                   evOverrun, actOverrun>>

\* ------------------------------------------------------------ the builder
\* the engine has room for one more component within the bounds
Room == Len(event_sources) + strategies + executors < MaxComponents

RECURSIVE Sum(_)
Sum(seq) == IF seq = <<>> THEN 0 ELSE Head(seq) + Sum(Tail(seq))

AddEventSource(n) ==
    /\ runpc = "build"
    /\ Len(event_sources) < MaxSources
    /\ Room
    /\ Sum(event_sources) + n <= MaxEvents
    /\ event_sources' = Append(event_sources, n)
    /\ UNCHANGED <<strategies, executors, runpc, runIdx, aborted, synced>>
    /\ UNCHANGED taskVars
    /\ UNCHANGED crateVars

AddStrategy ==
    /\ runpc = "build"
    /\ strategies < MaxStrategies
    /\ Room
    /\ strategies' = strategies + 1
    /\ UNCHANGED <<event_sources, executors, runpc, runIdx, aborted, synced>>
    /\ UNCHANGED taskVars
    /\ UNCHANGED crateVars

AddExecutor ==
    /\ runpc = "build"
    /\ executors < MaxExecutors
    /\ Room
    /\ executors' = executors + 1
    /\ UNCHANGED <<event_sources, strategies, runpc, runIdx, aborted, synced>>
    /\ UNCHANGED taskVars
    /\ UNCHANGED crateVars

\* ------------------------------------------------------------------ run()
\* where run() continues once item idx - 1 of a for-loop is done: the next
\* item, or the first item of the next non-empty loop, or Ok(tasks)
\* run() with the source loop placed before the strategy loop
RECURSIVE PosSourcesFirst(_, _)
PosSourcesFirst(phase, idx) ==
    IF phase = "executors"
    THEN IF idx <= executors THEN <<phase, idx>> ELSE PosSourcesFirst("sources", 1)
    ELSE IF phase = "sources"
    THEN IF idx <= Len(event_sources) THEN <<phase, idx>>
         ELSE PosSourcesFirst("strategies", 1)
    ELSE IF idx <= strategies THEN <<phase, idx>> ELSE <<"ok", 0>>

RECURSIVE Pos(_, _)
Pos(phase, idx) ==
    IF phase = "executors"
    THEN IF idx <= executors THEN <<phase, idx>> ELSE Pos("strategies", 1)
    ELSE IF phase = "strategies"
    THEN IF idx <= strategies THEN <<phase, idx>> ELSE Pos("sources", 1)
    ELSE IF idx <= Len(event_sources) THEN <<phase, idx>> ELSE <<"ok", 0>>

\* run(self): the two channels are created, the first loop is entered
RunStart ==
    /\ runpc = "build"
    /\ runpc' = Pos("executors", 1)[1]
    /\ runIdx' = Pos("executors", 1)[2]
    /\ UNCHANGED <<event_sources, strategies, executors, aborted, synced>>
    /\ UNCHANGED taskVars
    /\ UNCHANGED crateVars

\* action_sender.subscribe(); tasks.spawn(executor loop)
RunSpawnExecutor ==
    /\ runpc = "executors"
    /\ actnext' = [actnext EXCEPT ![runIdx] = Len(actlog)]
    /\ execpc' = [execpc EXCEPT ![runIdx] = "spawned"]
    /\ runpc' = Pos("executors", runIdx + 1)[1]
    /\ runIdx' = Pos("executors", runIdx + 1)[2]
    /\ UNCHANGED <<event_sources, strategies, executors, aborted, synced,
                   srcpc, stratpc, emitted, evlog, actlog, evnext, curEvent,
                   pending, curAction, processed, returned, sentActs,
                   executed, failed, evLagged, actLagged, evClosedSeen, actClosedSeen,
                   evOverrun, actOverrun>>
    /\ UNCHANGED crateVars

\* event_sender.subscribe(); action_sender.clone(); sync_state() is called
RunSubscribeStrategy ==
    /\ runpc = "strategies"
    /\ evnext' = [evnext EXCEPT ![runIdx] = Len(evlog)]
    /\ stratpc' = [stratpc EXCEPT ![runIdx] = "subscribed"]
    /\ runpc' = "syncing"
    /\ UNCHANGED <<event_sources, strategies, executors, runIdx, aborted,
                   synced, srcpc, execpc, emitted, evlog, actlog, actnext,
                   curEvent, pending, curAction, processed, returned,
                   sentActs, executed, failed, evLagged, actLagged, evClosedSeen,
                   actClosedSeen,
                   evOverrun, actOverrun>>
    /\ UNCHANGED crateVars

\* the strategy task is spawned once sync_state() has returned Ok
SpawnAfterSync(s) == [stratpc EXCEPT ![s] = "spawned"]

\* sync_state().await returned Ok(()); tasks.spawn(strategy loop)
RunSyncOk ==
    /\ runpc = "syncing"
    /\ synced' = Append(synced, runIdx)
    /\ stratpc' = SpawnAfterSync(runIdx)
    /\ runpc' = Pos("strategies", runIdx + 1)[1]
    /\ runIdx' = Pos("strategies", runIdx + 1)[2]
    /\ UNCHANGED <<event_sources, strategies, executors, aborted, srcpc,
                   execpc, emitted, evlog, actlog, evnext, actnext, curEvent,
                   pending, curAction, processed, returned, sentActs,
                   executed, failed, evLagged, actLagged, evClosedSeen, actClosedSeen,
                   evOverrun, actOverrun>>
    /\ UNCHANGED crateVars

\* tasks spawned detached from the set that run() drops
DetachOnError == FALSE

\* what `?` does to the JoinSet: run() returns, `tasks` is dropped, and
\* dropping a JoinSet aborts every task in it
AbortOnError == TRUE

\* sync_state().await returned Err(e): run() returns Err(e)
RunSyncErr ==
    /\ runpc = "syncing"
    /\ runpc' = "err"
    /\ aborted' = AbortOnError
    /\ UNCHANGED <<event_sources, strategies, executors, runIdx, synced>>
    /\ UNCHANGED taskVars
    /\ UNCHANGED crateVars

\* event_sender.clone(); tasks.spawn(source loop)
RunSpawnSource ==
    /\ runpc = "sources"
    /\ srcpc' = [srcpc EXCEPT ![runIdx] = "spawned"]
    /\ runpc' = Pos("sources", runIdx + 1)[1]
    /\ runIdx' = Pos("sources", runIdx + 1)[2]
    /\ UNCHANGED <<event_sources, strategies, executors, aborted, synced,
                   stratpc, execpc, emitted, evlog, actlog, evnext, actnext,
                   curEvent, pending, curAction, processed, returned,
                   sentActs, executed, failed, evLagged, actLagged, evClosedSeen,
                   actClosedSeen,
                   evOverrun, actOverrun>>
    /\ UNCHANGED crateVars

\* JoinSet::shutdown on the set run() returned
Shutdown ==
    /\ runpc = "ok"
    /\ ~aborted
    /\ aborted' = TRUE
    /\ UNCHANGED <<event_sources, strategies, executors, runpc, runIdx, synced>>
    /\ UNCHANGED taskVars
    /\ UNCHANGED crateVars

runVars == <<event_sources, strategies, executors, runpc, runIdx, aborted, synced>>

\* ----------------------------------------------------------- source task
\* the task is polled for the first time: get_event_stream().await
SourceStart(i) ==
    /\ srcpc[i] = "spawned"
    /\ ~aborted
    /\ srcpc' = [srcpc EXCEPT ![i] = "stream"]
    /\ UNCHANGED runVars
    /\ UNCHANGED <<stratpc, execpc, emitted, evlog, actlog, evnext, actnext,
                   curEvent, pending, curAction, processed, returned,
                   sentActs, executed, failed, evLagged, actLagged, evClosedSeen,
                   actClosedSeen,
                   evOverrun, actOverrun>>
    /\ UNCHANGED crateVars

\* event_stream.next().await is Some(event); event_sender.send(event)
SourceSend(i) ==
    /\ srcpc[i] = "stream"
    /\ ~aborted
    /\ emitted[i] < event_sources[i]
    /\ ~SendBlocked(evlog, EventCap, {evnext[s] : s \in EventReceivers})
    /\ emitted' = [emitted EXCEPT ![i] = @ + 1]
    /\ evlog' = Send(evlog, EventOf(i, emitted[i] + 1), EventReceivers)
    /\ evOverrun' = [s \in StrategyIds |->
            evOverrun[s] \/ (s \in EventReceivers
                             /\ Len(evlog') - evnext[s] > EventCap)]
    /\ UNCHANGED runVars
    /\ UNCHANGED <<srcpc, stratpc, execpc, actlog, evnext, actnext,
                   curEvent, pending, curAction, processed, returned,
                   sentActs, executed, failed, evLagged, actLagged, evClosedSeen,
                   actClosedSeen, actOverrun>>
    /\ UNCHANGED crateVars

\* event_stream.next().await is None: the while loop and the task end
SourceEnd(i) ==
    /\ srcpc[i] = "stream"
    /\ ~aborted
    /\ emitted[i] = event_sources[i]
    /\ srcpc' = [srcpc EXCEPT ![i] = "done"]
    /\ UNCHANGED runVars
    /\ UNCHANGED <<stratpc, execpc, emitted, evlog, actlog, evnext, actnext,
                   curEvent, pending, curAction, processed, returned,
                   sentActs, executed, failed, evLagged, actLagged, evClosedSeen,
                   actClosedSeen,
                   evOverrun, actOverrun>>
    /\ UNCHANGED crateVars

\* --------------------------------------------------------- strategy task
StrategyStart(s) ==
    /\ stratpc[s] = "spawned"
    /\ ~aborted
    /\ stratpc' = [stratpc EXCEPT ![s] = "recv"]
    /\ UNCHANGED runVars
    /\ UNCHANGED <<srcpc, execpc, emitted, evlog, actlog, evnext, actnext,
                   curEvent, pending, curAction, processed, returned,
                   sentActs, executed, failed, evLagged, actLagged, evClosedSeen,
                   actClosedSeen,
                   evOverrun, actOverrun>>
    /\ UNCHANGED crateVars

\* a loop that polls recv() while a process_event call is still in flight
StrategyAtRecvOrBusy(s) == stratpc[s] \in {"recv", "process", "send"}

\* a loop that breaks on any Err(e) from recv()
StopOnRecvError(kind) == "done"

\* the loop reaches event_receiver.recv() only from the top of the loop
StrategyAtRecv(s) == stratpc[s] = "recv"

\* what the task does with Err(e) from recv(): log it and loop again
AfterRecvError(kind) == "recv"

\* event_receiver.recv().await completes; Ok(event) starts process_event
StrategyRecv(s) ==
    /\ StrategyAtRecv(s)
    /\ ~aborted
    /\ LET r == Recv(evlog, evnext[s], EventCap, EventChannelClosed) IN
        /\ r.kind # "pending"
        /\ evnext' = [evnext EXCEPT ![s] = r.next]
        /\ evLagged' = [evLagged EXCEPT ![s] = @ + r.missed]
        /\ evClosedSeen' = [evClosedSeen EXCEPT ![s] = @ \/ r.kind = "closed"]
        /\ IF r.kind = "value"
           THEN /\ curEvent' = [curEvent EXCEPT ![s] = evlog[r.next]]
                /\ processed' = [processed EXCEPT ![s] = Append(@, evlog[r.next])]
                /\ stratpc' = [stratpc EXCEPT ![s] = "process"]
           ELSE /\ stratpc' = [stratpc EXCEPT ![s] = AfterRecvError(r.kind)]
                /\ UNCHANGED <<curEvent, processed>>
    /\ UNCHANGED runVars
    /\ UNCHANGED <<srcpc, execpc, emitted, evlog, actlog, actnext, pending,
                   curAction, returned, sentActs, executed, failed, actLagged,
                   actClosedSeen,
                   evOverrun, actOverrun>>
    /\ UNCHANGED crateVars

\* the action list a strategy returns for an event: n actions, numbered
ActionsFor(s, ev, n) == [k \in 1..n |-> [strat |-> s, ev |-> ev, k |-> k]]

\* process_event(event).await returns its Vec<A>
StrategyProcess(s, n) ==
    /\ stratpc[s] = "process"
    /\ Sum([t \in StrategyIds |-> Len(returned[t])]) + n <= MaxActions
    /\ pending' = [pending EXCEPT ![s] = ActionsFor(s, curEvent[s], n)]
    /\ returned' = [returned EXCEPT ![s] = @ \o ActionsFor(s, curEvent[s], n)]
    /\ stratpc' = [stratpc EXCEPT ![s] = IF n = 0 THEN "recv" ELSE "send"]
    /\ curEvent' = [curEvent EXCEPT ![s] = NoEvent]
    /\ UNCHANGED runVars
    /\ UNCHANGED <<srcpc, execpc, emitted, evlog, actlog, evnext, actnext,
                   curAction, processed, sentActs, executed, failed, evLagged,
                   actLagged, evClosedSeen, actClosedSeen,
                   evOverrun, actOverrun>>
    /\ UNCHANGED crateVars

\* a for-loop that takes the returned Vec from the back
LastToSend(s) == pending[s][Len(pending[s])]

\* the action the for-loop over `actions` sends next
NextToSend(s) == Head(pending[s])

\* action_sender.send(action) for the next action of the returned list
StrategySend(s) ==
    /\ stratpc[s] = "send"
    /\ actlog' = Send(actlog, NextToSend(s), ActionReceivers)
    /\ sentActs' = [sentActs EXCEPT ![s] = Append(@, NextToSend(s))]
    /\ pending' = [pending EXCEPT ![s] = Tail(@)]
    /\ stratpc' = [stratpc EXCEPT ![s] =
                      IF Len(pending[s]) = 1 THEN "recv" ELSE "send"]
    /\ actOverrun' = [e \in ExecutorIds |->
            actOverrun[e] \/ (e \in ActionReceivers
                              /\ Len(actlog') - actnext[e] > ActionCap)]
    /\ UNCHANGED runVars
    /\ UNCHANGED <<srcpc, execpc, emitted, evlog, evnext, actnext, curEvent,
                   curAction, processed, returned, executed, failed, evLagged,
                   actLagged, evClosedSeen, actClosedSeen, evOverrun>>
    /\ UNCHANGED crateVars

\* --------------------------------------------------------- executor task
ExecutorStart(e) ==
    /\ execpc[e] = "spawned"
    /\ ~aborted
    /\ execpc' = [execpc EXCEPT ![e] = "recv"]
    /\ UNCHANGED runVars
    /\ UNCHANGED <<srcpc, stratpc, emitted, evlog, actlog, evnext, actnext,
                   curEvent, pending, curAction, processed, returned,
                   sentActs, executed, failed, evLagged, actLagged, evClosedSeen,
                   actClosedSeen,
                   evOverrun, actOverrun>>
    /\ UNCHANGED crateVars

\* receiver.recv().await completes; Ok(action) starts execute
ExecutorRecv(e) ==
    /\ execpc[e] = "recv"
    /\ ~aborted
    /\ LET r == Recv(actlog, actnext[e], ActionCap, ActionChannelClosed) IN
        /\ r.kind # "pending"
        /\ actnext' = [actnext EXCEPT ![e] = r.next]
        /\ actLagged' = [actLagged EXCEPT ![e] = @ + r.missed]
        /\ actClosedSeen' = [actClosedSeen EXCEPT ![e] = @ \/ r.kind = "closed"]
        /\ IF r.kind = "value"
           THEN /\ curAction' = [curAction EXCEPT ![e] = actlog[r.next]]
                /\ executed' = [executed EXCEPT ![e] = Append(@, actlog[r.next])]
                /\ execpc' = [execpc EXCEPT ![e] = "exec"]
           ELSE /\ execpc' = [execpc EXCEPT ![e] = AfterRecvError(r.kind)]
                /\ UNCHANGED <<curAction, executed>>
    /\ UNCHANGED runVars
    /\ UNCHANGED <<srcpc, stratpc, emitted, evlog, actlog, evnext, curEvent,
                   pending, processed, returned, sentActs, failed, evLagged,
                   evClosedSeen, evOverrun, actOverrun>>
    /\ UNCHANGED crateVars

\* a loop that leaves on the first failed execute (`?` or break)
StopOnExecuteError(ok) == IF ok THEN "recv" ELSE "done"

\* where the executor loop goes after execute returned: both arms of the
\* match only log, and the loop takes its next turn
AfterExecute(ok) == "recv"

\* executor.execute(action).await returns Ok (ok) or Err (~ok)
ExecutorExecute(e, ok) ==
    /\ execpc[e] = "exec"
    /\ execpc' = [execpc EXCEPT ![e] = AfterExecute(ok)]
    /\ failed' = [failed EXCEPT ![e] = IF ok THEN @ ELSE @ \cup {curAction[e]}]
    /\ curAction' = [curAction EXCEPT ![e] = NoAction]
    /\ UNCHANGED runVars
    /\ UNCHANGED <<srcpc, stratpc, emitted, evlog, actlog, evnext, actnext,
                   curEvent, pending, processed, returned, sentActs, executed,
                   evLagged, actLagged, evClosedSeen, actClosedSeen,
                   evOverrun, actOverrun>>
    /\ UNCHANGED crateVars

\* ------------------------------------------------------------------- Next
Next ==
    \/ \E n \in 0..MaxEvents : AddEventSource(n)
    \/ AddStrategy
    \/ AddExecutor
    \/ RunStart
    \/ RunSpawnExecutor
    \/ RunSubscribeStrategy
    \/ RunSyncOk
    \/ RunSyncErr
    \/ RunSpawnSource
    \/ Shutdown
    \/ \E i \in SourceIds : SourceStart(i)
    \/ \E i \in SourceIds : SourceSend(i)
    \/ \E i \in SourceIds : SourceEnd(i)
    \/ \E s \in StrategyIds : StrategyStart(s)
    \/ \E s \in StrategyIds : StrategyRecv(s)
    \/ \E s \in StrategyIds, n \in 0..MaxActions : StrategyProcess(s, n)
    \/ \E s \in StrategyIds : StrategySend(s)
    \/ \E e \in ExecutorIds : ExecutorStart(e)
    \/ \E e \in ExecutorIds : ExecutorRecv(e)
    \/ \E e \in ExecutorIds, ok \in BOOLEAN : ExecutorExecute(e, ok)

Spec == Init /\ [][Next]_vars

\* ============================================================ properties
IsPrefix(a, b) == Len(a) <= Len(b) /\ a = SubSeq(b, 1, Len(a))

RECURSIVE Concat(_)
Concat(lists) == IF lists = <<>> THEN <<>> ELSE Head(lists) \o Concat(Tail(lists))

Count(seq, x) == Len(SelectSeq(seq, LAMBDA y : y = x))

\* the events source i has sent so far, in production order
Produced(i) == [k \in 1..emitted[i] |-> EventOf(i, k)]

\* the events of source i within a sequence of events
FromSource(seq, i) == SelectSeq(seq, LAMBDA ev : ev.src = i)

\* the action list strategy s returned for event ev
ReturnedFor(s, ev) == SelectSeq(returned[s], LAMBDA a : a.ev = ev)

\* strategy s / executor e has consumed everything sent and is idle
StrategyDrained(s) ==
    stratpc[s] = "recv" /\ evnext[s] = Len(evlog) /\ pending[s] = <<>>
ExecutorDrained(e) == execpc[e] = "recv" /\ actnext[e] = Len(actlog)

SinglePipeline == Len(event_sources) = 1 /\ strategies = 1 /\ executors = 1
NoOverrun == ~evOverrun[1] /\ ~actOverrun[1]

\* the actions returned for the events of source 1, in production order
ExpectedActions == Concat([k \in 1..emitted[1] |-> ReturnedFor(1, EventOf(1, k))])

Increasing(seq) ==
    \A a, b \in 1..Len(seq) : a < b => seq[a].idx < seq[b].idx

C3_ConsumersStopWhenClosed ==
    /\ \A s \in StrategyIds : evClosedSeen[s] => stratpc[s] = "done"
    /\ \A e \in ExecutorIds : actClosedSeen[e] => execpc[e] = "done"

C5_LagIsPerSubscriber ==
    \A s, t \in 1..strategies :
        (s # t /\ evOverrun[t] /\ ~evOverrun[s]) =>
            /\ evLagged[s] = 0
            /\ processed[s] = SubSeq(evlog, 1, evnext[s])
            /\ (StrategyDrained(s) /\ ~aborted) => processed[s] = evlog

C5_Witness ==
    \E s, t \in 1..strategies :
        /\ s # t
        /\ evLagged[t] > 0
        /\ ~evOverrun[s]
        /\ processed[s] = evlog
        /\ Len(evlog) > EventCap

\* C6: a strategy that was never overrun has processed every event at most
\* once, and exactly once every event any source has sent when it is
\* drained; an executor that was never overrun has executed every action at
\* most once, and exactly once every action any strategy has sent when it is
\* drained (no shutdown).
C6_FanOut ==
    /\ \A s \in 1..strategies :
          ~evOverrun[s] =>
             \A i \in 1..Len(event_sources) : \A k \in 1..event_sources[i] :
                /\ Count(processed[s], EventOf(i, k)) <= 1
                /\ (StrategyDrained(s) /\ ~aborted /\ k <= emitted[i]) =>
                      Count(processed[s], EventOf(i, k)) = 1
    /\ \A e \in 1..executors :
          ~actOverrun[e] =>
             \A s \in 1..strategies :
                /\ \A n \in 1..Len(executed[e]) :
                      Count(executed[e], executed[e][n]) = 1
                /\ (ExecutorDrained(e) /\ ~aborted) =>
                      \A n \in 1..Len(sentActs[s]) :
                         Count(executed[e], sentActs[s][n]) = 1

C6_Witness ==
    /\ strategies = 2 /\ executors = 2 /\ ~aborted
    /\ \A s \in 1..2 : ~evOverrun[s] /\ StrategyDrained(s) /\ Len(processed[s]) = 2
    /\ \A e \in 1..2 : ~actOverrun[e] /\ ExecutorDrained(e) /\ Len(executed[e]) = 2
    /\ Len(sentActs[1]) = 1 /\ Len(sentActs[2]) = 1

\* some task of the engine can take a step
TaskNext ==
    \/ \E i \in SourceIds : (SourceStart(i) \/ SourceSend(i) \/ SourceEnd(i))
    \/ \E s \in StrategyIds :
          (StrategyStart(s) \/ StrategyRecv(s) \/ StrategySend(s))
    \/ \E s \in StrategyIds, n \in 0..MaxActions : StrategyProcess(s, n)
    \/ \E e \in ExecutorIds : (ExecutorStart(e) \/ ExecutorRecv(e))
    \/ \E e \in ExecutorIds, ok \in BOOLEAN : ExecutorExecute(e, ok)

\* C7: when run() has returned Err because a sync_state failed, no source
\* task was spawned, the failing strategy's task was never spawned, every
\* task spawned before is aborted while suspended, and no task of the
\* engine can take another step.
C7_SyncFailureAbortsAll ==
    runpc = "err" =>
        /\ aborted
        /\ \A i \in SourceIds : srcpc[i] = "none"
        /\ Len(synced) < strategies
        /\ stratpc[Len(synced) + 1] = "subscribed"
        /\ \A s \in StrategyIds : StrategySuspended(s) \/ stratpc[s] = "none"
        /\ \A e \in ExecutorIds : ExecutorSuspended(e) \/ execpc[e] = "none"
        /\ ~ENABLED TaskNext

C7_Witness ==
    /\ runpc = "err"
    /\ execpc[1] = "recv"
    /\ stratpc[1] = "recv"
    /\ stratpc[2] = "subscribed"
    /\ Len(event_sources) = 1

ExecutorInLoop(e) == execpc[e] \in {"recv", "exec"}
StrategyInLoop(s) == stratpc[s] \in {"recv", "process", "send"}
SourceInLoop(i) == srcpc[i] \in {"stream", "done"}

\* C8 (as claimed): whenever any task runs its loop, the sync_state of every
\* strategy has returned.
C8_AllSyncedBeforeAnyLoop ==
    (\/ \E e \in ExecutorIds : ExecutorInLoop(e)
     \/ \E s \in StrategyIds : StrategyInLoop(s)
     \/ \E i \in SourceIds : SourceInLoop(i))
    => synced = [k \in 1..strategies |-> k]

\* C8 (amended): sync_state is invoked in registration order, one strategy
\* at a time; a strategy's task exists only once its own sync_state (and
\* that of every strategy registered before it) has returned, and a source
\* task exists only once every strategy's sync_state has returned.
C8_SyncedBeforeOwnTaskAndSources ==
    /\ synced = [k \in 1..Len(synced) |-> k]
    /\ Len(synced) <= strategies
    /\ \A s \in StrategyIds :
          /\ stratpc[s] = "subscribed" => s = Len(synced) + 1
          /\ stratpc[s] \notin {"none", "subscribed"} => s <= Len(synced)
    /\ \A i \in SourceIds :
          srcpc[i] # "none" => synced = [k \in 1..strategies |-> k]

C8_Witness ==
    /\ strategies = 2
    /\ synced = <<1, 2>>
    /\ StrategyInLoop(1) /\ StrategyInLoop(2)
    /\ \E i \in SourceIds : SourceInLoop(i)
    /\ \E e \in ExecutorIds : ExecutorInLoop(e)

\* C9: a source task that is at its stream can always take its next step,
\* whatever the state of the channel and of the receivers: it sends the next
\* item or, after the last one, ends; when it has ended it has made exactly
\* one send attempt per item of its stream.
C9_SourceNeverBlocks ==
    \A i \in 1..Len(event_sources) :
        /\ (srcpc[i] = "stream" /\ ~aborted) =>
              ENABLED (SourceSend(i) \/ SourceEnd(i))
        /\ emitted[i] <= event_sources[i]
        /\ srcpc[i] = "done" => emitted[i] = event_sources[i]

\* the subscribers never received: the source ended all the same
C9_Witness ==
    /\ strategies >= 1
    /\ \A s \in 1..strategies : stratpc[s] = "recv" /\ evnext[s] = 0
    /\ srcpc[1] = "done"
    /\ emitted[1] = MaxEvents
    /\ Len(evlog) > EventCap

\* no subscriber at all: every send failed and the source ended
C9_WitnessNoSubscriber ==
    /\ strategies = 0
    /\ srcpc[1] = "done"
    /\ emitted[1] = MaxEvents
    /\ evlog = <<>>

\* C10: a strategy task receives an event (and starts process_event on it)
\* only when no process_event call of that strategy is in flight and every
\* action its earlier calls returned has been passed to send.
C10_ProcessEventSequential ==
    [][\A s \in StrategyIds :
        processed'[s] # processed[s] =>
            /\ stratpc[s] = "recv"
            /\ pending[s] = <<>>
            /\ sentActs[s] = returned[s]]_vars

\* two strategies inside process_event at the same time, one of them in its
\* second call
C10_Witness ==
    /\ stratpc[1] = "process"
    /\ stratpc[2] = "process"
    /\ Len(processed[1]) = 2
    /\ Len(sentActs[1]) = 1

\* the actions of seq returned for event ev keep the order of the returned list
InReturnedOrder(seq) ==
    \A a, b \in 1..Len(seq) :
        (a < b /\ seq[a].ev = seq[b].ev) => seq[a].k < seq[b].k

\* C11: the actions a strategy has passed to send are always a prefix of the
\* actions its process_event calls returned, in returned order: the k-th
\* action of a returned list is sent before the (k+1)-th, and every action
\* returned for an event is sent before any action returned for an event the
\* strategy received later.  The actions still to be sent are the rest of
\* the list returned last.
C11_ActionsSentInReturnedOrder ==
    \A s \in StrategyIds :
        /\ IsPrefix(sentActs[s], returned[s])
        /\ sentActs[s] \o pending[s] = returned[s]
        /\ InReturnedOrder(sentActs[s])
        /\ \A a, b \in 1..Len(sentActs[s]) :
              (a < b /\ sentActs[s][a].ev # sentActs[s][b].ev) =>
                  \E i, j \in 1..Len(processed[s]) :
                      /\ i < j
                      /\ processed[s][i] = sentActs[s][a].ev
                      /\ processed[s][j] = sentActs[s][b].ev

\* one call returned two actions and both were sent
C11_Witness ==
    \E s \in StrategyIds :
        /\ Len(sentActs[s]) = 2
        /\ sentActs[s][1].ev = sentActs[s][2].ev
        /\ sentActs[s][1].k = 1
        /\ sentActs[s][2].k = 2
        /\ stratpc[s] = "recv"

\* actions of two different events: the earlier event's action went first
C11_WitnessTwoEvents ==
    \E s \in StrategyIds :
        /\ Len(sentActs[s]) = 2
        /\ sentActs[s][1].ev # sentActs[s][2].ev

\* C12: an execute call that returns Err changes nothing but the executor's
\* own position, which goes back to recv: the executor task keeps running,
\* the failed action is not passed to execute again (every call of execute
\* takes the action at the next channel position, and a failed action was
\* passed exactly once), and no other task, channel or cursor is affected.
C12_ExecuteErrorIsolated ==
    [][\A e \in ExecutorIds :
        /\ ExecutorExecute(e, FALSE) =>
              /\ execpc'[e] = "recv"
              /\ \A o \in ExecutorIds \ {e} :
                    execpc'[o] = execpc[o] /\ failed'[o] = failed[o]
              /\ UNCHANGED <<srcpc, stratpc, actlog, evlog, actnext, evnext,
                             executed, aborted, runpc>>
        /\ executed'[e] # executed[e] =>
              /\ actnext'[e] > actnext[e]
              /\ executed'[e] = Append(executed[e], actlog[actnext'[e]])
        /\ \A a \in failed'[e] : Count(executed'[e], a) = 1]_vars

\* an executor's first execute failed, and it has executed the next action
C12_Witness ==
    \E e \in ExecutorIds :
        /\ Len(executed[e]) = 2
        /\ executed[e][1] \in failed[e]
        /\ executed[e][2] \notin failed[e]
        /\ execpc[e] = "recv"
        /\ \E o \in ExecutorIds \ {e} : Len(executed[o]) = 2 /\ failed[o] = {}

\* ========================================================================
\* The SSE client: EventClient, EventStream and its poll_next state machine
\* ========================================================================
\* largest retry cap a client is configured with
MaxRetries == 1
\* largest delay, in ticks, of a server retry directive
MaxDelay == 1
\* number of frames the servers send over all connections
MaxFrames == 2
\* number of GET requests issued over the life of the client
MaxConnects == 3
\* number of manual retry / retry_with / reset_retries calls
MaxCalls == 4
\* endpoints a stream can be pointed at
MaxEndpoints == 2

Endpoints == 1..MaxEndpoints
Queries == {NoQuery, 1}
RetryCaps == {NoCap} \cup (0..MaxRetries)

\* what the SSE decoder can hand out: a data frame whose payload is
\* well-formed JSON of T (the payloads are numbered in the order the servers
\* send them), a data frame whose payload is not, a retry directive, or a
\* transport error
Frames ==
    [kind : {"data"}, val : 1..MaxFrames]
        \cup {[kind |-> "garbage", val |-> 0]}
        \cup [kind : {"retry"}, val : 0..MaxDelay]
        \cup {[kind |-> "error", val |-> 0]}
EndOfStream == [kind |-> "end", val |-> 0]
NotReady == [kind |-> "pending", val |-> 0]

engineVars == <<runVars, taskVars>>

\* what the SSE client's actions leave unchanged
notSseVars == <<engineVars, authVars, mapVars, serdeVars, appVars>>

\* a stream exists and the process has not panicked
StreamLive == sse_state \notin {"Unsubscribed", "Panicked"}

\* serde_json::from_slice::<T>(data) of a message, and the directive passed on
ToEventOrRetry(f) ==
    CASE f.kind = "data" -> [kind |-> "Event", val |-> f.val]
      [] f.kind = "garbage" -> [kind |-> "SerdeErr", val |-> 0]
      [] f.kind = "retry" -> [kind |-> "Retry", val |-> f.val]

\* a payload that does not deserialize ends the stream
ActiveItemBadEnds(f) ==
    IF f.kind = "end" THEN [kind |-> "None", val |-> 0]
    ELSE IF f.kind = "error" THEN [kind |-> "Http", val |-> 0]
    ELSE LET r == ToEventOrRetry(f) IN
         IF r.kind = "SerdeErr" THEN [kind |-> "None", val |-> 0] ELSE r

\* ActiveEventStream::poll_next: what the decoder's output becomes
ActiveItem(f) ==
    IF f.kind = "end" THEN [kind |-> "None", val |-> 0]
    ELSE IF f.kind = "error" THEN [kind |-> "Http", val |-> 0]
    ELSE LET r == ToEventOrRetry(f) IN
         IF r.kind = "SerdeErr" THEN [kind |-> "SerdeJsonError", val |-> 0]
         ELSE r

\* a cap that already fails the retry that reaches it
CapExceededAt(n, max) == max # NoCap /\ n >= max

\* `self.num_retries > max_retries`, when a cap is set
CapExceeded(n, max) == max # NoCap /\ n > max

\* --------------------------------------------------------- the client
\* with_max_retries / set_max_retries, on the client before it subscribes
\* (a stream keeps the clone of the client it was created from)
SseSetMaxRetries(k) ==
    /\ sse_state = "Unsubscribed"
    /\ client_max_retries # k
    /\ client_max_retries' = k
    /\ UNCHANGED <<sse_state, num_retries, endpoint, query, max_retries,
                   fut_retries, fut_endpoint, fut_phase, timer, fut_get, conn,
                   pollpc, lastPoll, ngets, lastGet, nframes, directives,
                   served, yielded, ncalls, lastCall, callsSeen>>
    /\ UNCHANGED notSseVars

\* a GET to `ep` with query `q` is sent
Get(ep, q, by) ==
    /\ ngets < MaxConnects
    /\ ngets' = ngets + 1
    /\ lastGet' = [endpoint |-> ep, query |-> q, by |-> by]

\* no State::Retry future is held
NoFuture ==
    /\ fut_phase' = "none"
    /\ fut_retries' = 0
    /\ fut_endpoint' = 0
    /\ timer' = 0
    /\ fut_get' = 0

\* State::Active on the connection GET number g made
Connected(g) ==
    /\ sse_state' = "Active"
    /\ conn' = g
    /\ served' = <<>>
    /\ NoFuture

\* subscribe (q = NoQuery) / subscribe_with_query: the first GET; on success
\* the stream starts Active with a clone of the client
SseSubscribe(ep, q, ok) ==
    /\ sse_state = "Unsubscribed"
    /\ Get(ep, q, "subscribe")
    /\ IF ok
       THEN /\ Connected(ngets + 1)
            /\ num_retries' = 0
            /\ endpoint' = ep
            /\ query' = NoQuery
            /\ max_retries' = client_max_retries
       ELSE UNCHANGED <<sse_state, conn, num_retries, endpoint, query,
                        max_retries, served, fut_retries, fut_endpoint,
                        fut_phase, timer, fut_get>>
    /\ UNCHANGED <<client_max_retries, pollpc, lastPoll, nframes, directives,
                   yielded, ncalls, lastCall, callsSeen>>
    /\ UNCHANGED notSseVars

\* a manual call returns
Called(op, res) ==
    /\ ncalls < MaxCalls
    /\ ncalls' = ncalls + 1
    /\ lastCall' = [op |-> op, res |-> res]
    /\ callsSeen' = callsSeen \cup {res}

\* EventStream::reset_retries
SseResetRetries ==
    /\ StreamLive
    /\ pollpc = "idle"
    /\ num_retries' = 0
    /\ Called("reset_retries", "Reset")
    /\ UNCHANGED <<client_max_retries, sse_state, endpoint, query, max_retries,
                   fut_retries, fut_endpoint, fut_phase, timer, fut_get, conn,
                   pollpc, lastPoll, ngets, lastGet, nframes, directives,
                   served, yielded>>
    /\ UNCHANGED notSseVars

\* self.inner.retry().await? followed by self.state = Some(Active(stream)),
\* with the stream pointed at ep: the counter goes up first, then the cap is
\* checked, then the GET is sent and either answers (ok) or fails
ManualRetry(op, ep, ok) ==
    /\ StreamLive
    /\ pollpc = "idle"
    /\ endpoint' = ep
    /\ num_retries' = num_retries + 1
    /\ IF CapExceeded(num_retries + 1, max_retries)
       THEN /\ Called(op, "MaxRetriesExceeded")
            /\ UNCHANGED <<sse_state, conn, served, ngets, lastGet, fut_phase,
                           fut_retries, fut_endpoint, timer, fut_get, yielded>>
       ELSE /\ Get(ep, query, op)
            /\ IF ok
               THEN /\ Called(op, "Ok")
                    /\ Connected(ngets + 1)
                    /\ yielded' = <<>>
               ELSE /\ Called(op, "RetryError")
                    /\ UNCHANGED <<sse_state, conn, served, fut_phase,
                                   fut_retries, fut_endpoint, timer, fut_get,
                                   yielded>>
    /\ UNCHANGED <<client_max_retries, query, max_retries, pollpc, lastPoll,
                   nframes, directives>>
    /\ UNCHANGED notSseVars

\* EventStream::retry
SseRetry(ok) == ManualRetry("retry", endpoint, ok)

\* EventStream::retry_with
SseRetryWith(ep, ok) == ManualRetry("retry_with", ep, ok)

\* ---------------------------------------------------------- poll_next
\* poll_next returns `item` as Poll::Ready
Yield(item) ==
    /\ yielded' = Append(yielded, item)
    /\ lastPoll' = "Ready"
    /\ pollpc' = "idle"

\* poll_next returns Poll::Pending
ReturnPending ==
    /\ lastPoll' = "Pending"
    /\ pollpc' = "idle"
    /\ UNCHANGED yielded

\* this.state.take().expect(..) when the Option is None
PollTaken ==
    /\ sse_state = "Taken"
    /\ pollpc = "idle"
    /\ sse_state' = "Panicked"
    /\ lastPoll' = "panic"
    /\ UNCHANGED <<client_max_retries, num_retries, endpoint, query,
                   max_retries, fut_retries, fut_endpoint, fut_phase, timer,
                   fut_get, conn, pollpc, ngets, lastGet, nframes, directives,
                   served, yielded, ncalls, lastCall, callsSeen>>
    /\ UNCHANGED notSseVars

\* State::End: the state was taken, and the arm returns without putting it back
PollEnd ==
    /\ sse_state = "End"
    /\ sse_state' = "Taken"
    /\ Yield([kind |-> "None", val |-> 0])
    /\ UNCHANGED <<client_max_retries, num_retries, endpoint, query,
                   max_retries, fut_retries, fut_endpoint, fut_phase, timer,
                   fut_get, conn, ngets, lastGet, nframes, directives, served,
                   ncalls, lastCall, callsSeen>>
    /\ UNCHANGED notSseVars

\* a reconnect that starts at once, whatever the delay
SleepSkipped(t) == TRUE

\* tokio::time::sleep(duration) has completed
SleepDone(t) == t = 0

\* a failed reconnect leaves the stream in Retry
RetryAgainOnFailure(connected) == IF connected THEN "Active" ELSE "Retry"

\* the state poll_next stores once the retry future is Ready
AfterReconnect(connected) == IF connected THEN "Active" ELSE "End"

\* State::Retry(future): poll the future, which sleeps, then runs retry() on
\* its clone of the inner state, then waits for the GET; `out` is what the
\* GET has come to ("pending", "ok", "err")
PollRetry(out) ==
    /\ sse_state = "Retry"
    /\ IF fut_phase = "sleep"
       THEN /\ out = "pending"
            /\ IF ~SleepDone(timer)
               THEN /\ ReturnPending
                    /\ UNCHANGED <<sse_state, fut_retries, fut_endpoint,
                                   fut_phase, timer, fut_get, conn, ngets,
                                   lastGet, served>>
               ELSE /\ fut_retries' = fut_retries + 1
                    /\ IF CapExceeded(fut_retries + 1, max_retries)
                       THEN /\ sse_state' = AfterReconnect(FALSE)
                            /\ Yield([kind |-> "MaxRetriesExceeded",
                                      val |-> max_retries])
                            /\ UNCHANGED <<fut_endpoint, fut_phase, timer,
                                           fut_get, conn, ngets, lastGet,
                                           served>>
                       ELSE /\ Get(fut_endpoint, query, "poll_next")
                            /\ fut_get' = ngets + 1
                            /\ fut_phase' = "connect"
                            /\ ReturnPending
                            /\ UNCHANGED <<sse_state, fut_endpoint, timer,
                                           conn, served>>
       ELSE /\ fut_phase = "connect"
            /\ UNCHANGED <<ngets, lastGet>>
            /\ CASE out = "pending" ->
                      /\ ReturnPending
                      /\ UNCHANGED <<sse_state, fut_retries, fut_endpoint,
                                     fut_phase, timer, fut_get, conn, served>>
                 [] out = "ok" ->
                      /\ sse_state' = AfterReconnect(TRUE)
                      /\ conn' = fut_get
                      /\ served' = <<>>
                      /\ NoFuture
                      /\ pollpc' = "loop"
                      /\ yielded' = <<>>
                      /\ UNCHANGED lastPoll
                 [] out = "err" ->
                      /\ sse_state' = AfterReconnect(FALSE)
                      /\ Yield([kind |-> "RetryError", val |-> 0])
                      /\ UNCHANGED <<fut_retries, fut_endpoint, fut_phase,
                                     timer, fut_get, conn, served>>
    /\ UNCHANGED <<client_max_retries, num_retries, endpoint, query,
                   max_retries, nframes, directives, ncalls, lastCall,
                   callsSeen>>
    /\ UNCHANGED notSseVars

\* the stream forgets its state after an item
StateLostAfterItem == "Taken"

\* this.state = Some(State::Active(stream)) before the break
StateAfterItem == "Active"

\* State::Active(stream): poll the connection; f is what its decoder hands out
PollActive(f) ==
    /\ sse_state = "Active"
    /\ (f \in Frames => nframes < MaxFrames)
    /\ (f.kind = "data" => f.val = nframes + 1)
    /\ nframes' = IF f \in Frames THEN nframes + 1 ELSE nframes
    /\ directives' = IF f.kind = "retry" THEN directives + 1 ELSE directives
    /\ served' = IF f = NotReady THEN served ELSE Append(served, f)
    /\ IF f = NotReady
       THEN /\ sse_state' = StateAfterItem
            /\ ReturnPending
            /\ UNCHANGED <<fut_retries, fut_endpoint, fut_phase, timer,
                           fut_get, conn>>
       ELSE LET item == ActiveItem(f) IN
            CASE item.kind = "None" ->
                    /\ sse_state' = "End"
                    /\ Yield(item)
                    /\ UNCHANGED <<fut_retries, fut_endpoint, fut_phase,
                                   timer, fut_get, conn>>
              [] item.kind = "Event" ->
                    /\ sse_state' = StateAfterItem
                    /\ Yield([kind |-> "Ok", val |-> item.val])
                    /\ UNCHANGED <<fut_retries, fut_endpoint, fut_phase,
                                   timer, fut_get, conn>>
              [] item.kind = "Retry" ->
                    /\ sse_state' = "Retry"
                    /\ fut_retries' = num_retries
                    /\ fut_endpoint' = endpoint
                    /\ fut_phase' = "sleep"
                    /\ timer' = item.val
                    /\ fut_get' = 0
                    /\ conn' = 0
                    /\ pollpc' = "loop"
                    /\ UNCHANGED <<lastPoll, yielded>>
              [] OTHER ->
                    /\ sse_state' = StateAfterItem
                    /\ Yield(item)
                    /\ UNCHANGED <<fut_retries, fut_endpoint, fut_phase,
                                   timer, fut_get, conn>>
    /\ UNCHANGED <<client_max_retries, num_retries, endpoint, query,
                   max_retries, ngets, lastGet, ncalls, lastCall, callsSeen>>
    /\ UNCHANGED notSseVars

\* time passes while the retry future sleeps
SseTick ==
    /\ sse_state = "Retry"
    /\ fut_phase = "sleep"
    /\ pollpc = "idle"
    /\ timer > 0
    /\ timer' = timer - 1
    /\ UNCHANGED <<client_max_retries, sse_state, num_retries, endpoint, query,
                   max_retries, fut_retries, fut_endpoint, fut_phase, fut_get,
                   conn, pollpc, lastPoll, ngets, lastGet, nframes, directives,
                   served, yielded, ncalls, lastCall, callsSeen>>
    /\ UNCHANGED notSseVars

SseNext ==
    \/ \E k \in RetryCaps : SseSetMaxRetries(k)
    \/ \E ep \in Endpoints, q \in Queries, ok \in BOOLEAN : SseSubscribe(ep, q, ok)
    \/ SseResetRetries
    \/ \E ok \in BOOLEAN : SseRetry(ok)
    \/ \E ep \in Endpoints, ok \in BOOLEAN : SseRetryWith(ep, ok)
    \/ PollTaken
    \/ PollEnd
    \/ \E out \in {"pending", "ok", "err"} : PollRetry(out)
    \/ \E f \in Frames \cup {EndOfStream, NotReady} : PollActive(f)
    \/ SseTick

SseSpec == Init /\ [][SseNext]_vars

\* ------------------------------------------------- SSE client properties
NoneItem == [kind |-> "None", val |-> 0]

\* the stream has reached End (the Option may have been emptied since)
ReachedEnd == sse_state \in {"End", "Taken"}

\* C13 (as claimed): once the stream has reached End, every poll returns
\* Ready(None) and leaves the stream at End: no panic, no item.
C13_EndIsTerminal ==
    [][(ReachedEnd /\ (PollEnd \/ PollTaken)) =>
          /\ lastPoll' = "Ready"
          /\ yielded' = Append(yielded, NoneItem)
          /\ ReachedEnd']_vars

\* the retry future is still in its sleep
Sleeping == sse_state = "Retry" /\ fut_phase = "sleep"

\* the retry future has sent its GET and waits for the response
Reconnecting == sse_state = "Retry" /\ fut_phase = "connect"

\* C14 (as claimed): on a stream that is only polled (no manual call), the
\* stream's retry counter equals the number of retry directives received
\* once the reconnect of the latest one has started, and with a cap K the
\* stream reconnects only for the first K directives: a reconnect is never
\* under way for directive K+1 or later, and after directive K+1 the
\* stream is at its end.
C14_DirectivesCountedAndCapped ==
    (ncalls = 0 /\ pollpc = "idle") =>
        /\ ~Sleeping => num_retries = directives
        /\ max_retries # NoCap =>
              /\ Reconnecting => directives <= max_retries
              /\ (directives > max_retries /\ ~Sleeping) =>
                    sse_state \in {"End", "Taken", "Panicked"}

\* the step is a manual retry() or retry_with() call
ManualRetryStep ==
    ncalls' = ncalls + 1 /\ lastCall'.op \in {"retry", "retry_with"}

\* C15: every manual retry() or retry_with() call raises the stream's retry
\* counter by exactly one, whether it connects, fails to connect or is
\* refused; with a cap K the call is refused with MaxRetriesExceeded, without
\* a GET and without a change of state, exactly when the counter already was
\* K or more; the counter changes in no other step except reset_retries(),
\* which sets it to 0.
C15_ManualRetryCounts ==
    [][/\ ManualRetryStep =>
              /\ num_retries' = num_retries + 1
              /\ IF max_retries # NoCap /\ num_retries >= max_retries
                 THEN /\ lastCall'.res = "MaxRetriesExceeded"
                      /\ ngets' = ngets
                      /\ sse_state' = sse_state
                 ELSE /\ lastCall'.res \in {"Ok", "RetryError"}
                      /\ ngets' = ngets + 1
                      /\ lastCall'.res = "Ok" => sse_state' = "Active"
                      /\ lastCall'.res = "RetryError" => sse_state' = sse_state
       /\ (num_retries' # num_retries /\ ~ManualRetryStep) =>
              /\ ncalls' = ncalls + 1
              /\ lastCall'.op = "reset_retries"
              /\ num_retries' = 0
       /\ (ncalls' = ncalls + 1 /\ lastCall'.op = "reset_retries") =>
              num_retries' = 0]_vars

\* cap 1: a manual retry, the next one refused, a reset, and a retry that
\* connects again
C15_Witness ==
    /\ max_retries = 1
    /\ ncalls = 4
    /\ "MaxRetriesExceeded" \in callsSeen
    /\ "Reset" \in callsSeen
    /\ lastCall.res = "Ok"
    /\ lastCall.op \in {"retry", "retry_with"}
    /\ num_retries = 1
    /\ sse_state = "Active"

Last(seq) == seq[Len(seq)]

PollRetryStep == \E out \in {"pending", "ok", "err"} : PollRetry(out)

\* C17: a retry directive Retry(d) puts the stream to sleep for d without a
\* GET; while time is left, a poll returns Pending, sends no GET, yields
\* nothing and leaves the stream asleep; the GET of the reconnect is sent by
\* a poll that finds the sleep completed.
C17_DelayHonoured ==
    [][/\ (sse_state = "Active" /\ sse_state' = "Retry") =>
              /\ fut_phase' = "sleep"
              /\ timer' = Last(served').val
              /\ ngets' = ngets
              /\ yielded' = yielded
       /\ (Sleeping /\ timer > 0 /\ PollRetryStep) =>
              /\ lastPoll' = "Pending"
              /\ ngets' = ngets
              /\ yielded' = yielded
              /\ Sleeping'
              /\ timer' = timer
       /\ (lastGet'.by = "poll_next" /\ ngets' # ngets) =>
              Sleeping /\ timer = 0]_vars

\* a directive with delay 1 was obeyed: a poll returned Pending while the
\* stream slept, and the GET went out after the tick
C17_Witness ==
    /\ Reconnecting
    /\ Last(served) = [kind |-> "retry", val |-> 1]
    /\ lastGet.by = "poll_next"
    /\ lastPoll = "Pending"
    /\ timer = 0

\* an item that is an error
IsErr(item) ==
    item.kind \in {"SerdeJsonError", "Http", "RetryError", "MaxRetriesExceeded"}

\* C18: a poll of the Retry state either leaves the stream in Retry and
\* returns Pending, or (the reconnect succeeded) makes it Active on the new
\* connection without yielding, or (the reconnect failed or the cap was
\* exceeded) yields one Err and moves it to End, after which polls yield no
\* further Err.  A poll of the Active state that meets the end of the
\* connection yields None and moves the stream to End.
C18_RetryAndEndTransitions ==
    [][/\ PollRetryStep =>
              \/ /\ sse_state' = "Retry"
                 /\ lastPoll' = "Pending"
                 /\ yielded' = yielded
              \/ /\ sse_state' = "Active"
                 /\ Reconnecting
                 /\ conn' = fut_get
                 /\ served' = <<>>
                 /\ yielded' = <<>>
              \/ /\ sse_state' = "End"
                 /\ lastPoll' = "Ready"
                 /\ Len(yielded') = Len(yielded) + 1
                 /\ Last(yielded').kind \in {"RetryError", "MaxRetriesExceeded"}
       /\ PollActive(EndOfStream) =>
              /\ sse_state' = "End"
              /\ yielded' = Append(yielded, NoneItem)
       /\ (ReachedEnd /\ ReachedEnd' /\ yielded' # yielded) =>
              ~IsErr(Last(yielded'))]_vars

\* a reconnect failed: the stream yielded the error and is at End
C18_Witness ==
    /\ sse_state = "End"
    /\ yielded # <<>>
    /\ Last(yielded).kind = "RetryError"
    /\ lastPoll = "Ready"
    /\ ncalls = 0

\* all frames of seq are well-formed data frames
AllData(seq) == \A i \in 1..Len(seq) : seq[i].kind = "data"

\* C19: on a connection whose body is n well-formed data frames and then
\* ends, the stream yields Ok of the n payloads in frame order, stays Active
\* in between, and when the body has ended has yielded exactly those n
\* items followed by None.
C19_DataFramesInOrder ==
    (pollpc = "idle" /\ served # <<>>) =>
        /\ (AllData(served) /\ sse_state # "Panicked") =>
              /\ sse_state = "Active"
              /\ yielded = [i \in 1..Len(served) |->
                                [kind |-> "Ok", val |-> served[i].val]]
        /\ (/\ sse_state = "End"
            /\ Last(served).kind = "end"
            /\ AllData(SubSeq(served, 1, Len(served) - 1))) =>
              yielded = [i \in 1..Len(served) |->
                            IF i < Len(served)
                            THEN [kind |-> "Ok", val |-> served[i].val]
                            ELSE NoneItem]

\* two data frames and the end of the body: two Ok items in order, then None
C19_Witness ==
    /\ sse_state = "End"
    /\ Len(served) = 3
    /\ AllData(SubSeq(served, 1, 2))
    /\ yielded = <<[kind |-> "Ok", val |-> 1], [kind |-> "Ok", val |-> 2],
                   NoneItem>>

\* ========================================================================
\* The signing middleware: AuthService::call
\* ========================================================================
\* number of requests passed to call()
MaxAuthCalls == 2
\* number of distinct request bodies
MaxBodies == 2
\* the address of the service's signer
SignerAddress == 1

\* number of distinct request URIs
MaxUris == 2

\* what the middleware's actions leave unchanged
notAuthVars == <<engineVars, sseVars, mapVars, serdeVars, appVars>>

Methods == {"GET", "POST"}
Uris == 1..MaxUris
ContentTypes == {"absent", "application/json", "text/plain",
                 "application/json; charset=utf-8"}
\* a signature header put on the request by someone else
ForeignSignature == [present |-> TRUE, addr |-> 0, enc |-> "foreign", body |-> 0]
OtherHeaders == {"absent", "x"}

\* number of distinct signers an AuthService can be built with
MaxSigners == 2
Signers == 1..MaxSigners

\* the header an AuthService whose signer has address a puts on a request
\* with this body: "{a:?}:0x{signature of "0x" + hex(keccak256(body)) by a}"
SignedBy(a, body) ==
    [present |-> TRUE, addr |-> a, enc |-> "0x-hex-keccak256", body |-> body]

\* requests that did not pass through an AuthService before
FreshRequests ==
    [method : Methods, uri : Uris, ctype : ContentTypes,
     sig : {NoSignature, ForeignSignature}, other : OtherHeaders,
     body : 1..MaxBodies]

\* what an AuthService with signer a hands to its inner service for a
\* request it signs: the same request with the header inserted
AlreadySigned ==
    {[r EXCEPT !.sig = SignedBy(a, r.body)] :
        r \in {q \in FreshRequests : /\ q.method = "POST"
                                     /\ q.ctype = "application/json"
                                     /\ q.sig = NoSignature},
        a \in Signers}

\* the requests call() is given: method, URI, Content-Type header,
\* X-Flashbots-Signature header, some other header, body
Requests == FreshRequests \cup AlreadySigned

\* request.into_parts()
IntoParts(req) ==
    [parts |-> [method |-> req.method, uri |-> req.uri, ctype |-> req.ctype,
                sig |-> req.sig, other |-> req.other],
     body |-> req.body]

\* a rebuilt request whose body was consumed by the digest
FromPartsEmptyBody(parts, body) ==
    [method |-> parts.method, uri |-> parts.uri, ctype |-> parts.ctype,
     sig |-> parts.sig, other |-> parts.other, body |-> 0]

\* Request::from_parts(parts, body)
FromParts(parts, body) ==
    [method |-> parts.method, uri |-> parts.uri, ctype |-> parts.ctype,
     sig |-> parts.sig, other |-> parts.other, body |-> body]

\* the Content-Type header is there and its value is exactly application/json
IsJson(parts) == parts.ctype # "absent" /\ parts.ctype = "application/json"

HasFlashbotsHeader(parts) == parts.sig.present

\* a test that overlooks a signature header already there
PassThroughIgnoringHeader(parts) ==
    ~IsJson(parts) \/ parts.method # "POST"

\* `!is_json || has_flashbots_header || parts.method != POST`
PassThrough(parts) ==
    ~IsJson(parts) \/ HasFlashbotsHeader(parts) \/ parts.method # "POST"

\* a message that is the 32 raw bytes of the digest
MessageRawDigest(body) == [enc |-> "keccak256", body |-> body]

\* the message signed: the UTF-8 bytes of "0x" + lower-case hex of
\* keccak256(body)
MessageOf(body) == [enc |-> "0x-hex-keccak256", body |-> body]

\* "{address:?}:0x{signature}" for the signature of msg by the signer
HeaderOf(msg) ==
    [present |-> TRUE, addr |-> SignerAddress, enc |-> msg.enc,
     body |-> msg.body]

\* the future returned by call() has completed
AuthDone(res) ==
    /\ auth_results' = Append(auth_results, res)
    /\ auth_phase' = "idle"
    /\ auth_parts' = NoParts
    /\ auth_body' = 0

\* call(request): the synchronous part, up to the choice of the future
AuthCall(req) ==
    /\ auth_phase = "idle"
    /\ Len(auth_results) < MaxAuthCalls
    /\ auth_in' = req
    /\ auth_parts' = IntoParts(req).parts
    /\ auth_body' = IntoParts(req).body
    /\ auth_phase' = IF PassThrough(IntoParts(req).parts) THEN "pass"
                     ELSE "collect"
    /\ inner_calls' = <<>>
    /\ signer_calls' = <<>>
    /\ UNCHANGED auth_results
    /\ UNCHANGED notAuthVars

\* the pass-through future: service.call(request).await.map_err(into)
AuthPassThrough(ok) ==
    /\ auth_phase = "pass"
    /\ inner_calls' = Append(inner_calls, FromParts(auth_parts, auth_body))
    /\ AuthDone(IF ok THEN "Ok" ELSE "Err")
    /\ UNCHANGED <<auth_in, signer_calls>>
    /\ UNCHANGED notAuthVars

\* body.collect().await.expect(..): the body arrives, or the future panics
AuthCollect(ok) ==
    /\ auth_phase = "collect"
    /\ IF ok
       THEN /\ auth_phase' = "sign"
            /\ UNCHANGED <<auth_parts, auth_body, auth_results>>
       ELSE AuthDone("panic")
    /\ UNCHANGED <<auth_in, inner_calls, signer_calls>>
    /\ UNCHANGED notAuthVars

\* signer.sign_message(message).await.expect(..), then the header is
\* inserted; a signer that fails makes the future panic
AuthSign(ok) ==
    /\ auth_phase = "sign"
    /\ signer_calls' = Append(signer_calls, MessageOf(auth_body))
    /\ IF ok
       THEN /\ auth_parts' = [auth_parts EXCEPT
                                 !.sig = HeaderOf(MessageOf(auth_body))]
            /\ auth_phase' = "forward"
            /\ UNCHANGED <<auth_body, auth_results>>
       ELSE AuthDone("panic")
    /\ UNCHANGED <<auth_in, inner_calls>>
    /\ UNCHANGED notAuthVars

\* service.call(authenticated_request).await.map_err(into)
AuthForward(ok) ==
    /\ auth_phase = "forward"
    /\ inner_calls' = Append(inner_calls, FromParts(auth_parts, auth_body))
    /\ AuthDone(IF ok THEN "Ok" ELSE "Err")
    /\ UNCHANGED <<auth_in, signer_calls>>
    /\ UNCHANGED notAuthVars

AuthNext ==
    \/ \E req \in Requests : AuthCall(req)
    \/ \E ok \in BOOLEAN : AuthPassThrough(ok)
    \/ \E ok \in BOOLEAN : AuthCollect(ok)
    \/ \E ok \in BOOLEAN : AuthSign(ok)
    \/ \E ok \in BOOLEAN : AuthForward(ok)

AuthSpec == Init /\ [][AuthNext]_vars

\* ------------------------------------------------- middleware properties
\* the latest call has completed
Completed == auth_in # NoRequest /\ auth_phase = "idle"

ToBeSigned ==
    /\ auth_in.method = "POST"
    /\ auth_in.ctype = "application/json"
    /\ auth_in.sig = NoSignature

\* C21: for a POST request with Content-Type application/json and no
\* signature header, the signer is asked to sign the UTF-8 bytes of
\* "0x" + hex(keccak256(body)) of that request's body and nothing else (not
\* the raw digest, not the raw body), and the request forwarded to the inner
\* service carries X-Flashbots-Signature = <signer address>:0x<signature>
\* with the signature of those bytes by the service's signer.
C21_SignatureOverHexDigest ==
    ToBeSigned =>
        /\ \A i \in 1..Len(signer_calls) :
              signer_calls[i] =
                  [enc |-> "0x-hex-keccak256", body |-> auth_in.body]
        /\ \A i \in 1..Len(inner_calls) :
              /\ signer_calls # <<>>
              /\ inner_calls[i].sig =
                     [present |-> TRUE, addr |-> SignerAddress,
                      enc |-> "0x-hex-keccak256", body |-> auth_in.body]

\* the second call of a service signed the second body and forwarded it
C21_Witness ==
    /\ Completed
    /\ ToBeSigned
    /\ Len(auth_results) = 2
    /\ auth_in.body = 2
    /\ Len(signer_calls) = 1
    /\ Len(inner_calls) = 1
    /\ inner_calls[1].sig.present
    /\ Last(auth_results) = "Ok"

\* C22: when the middleware signs a request, the inner service is called at
\* most once, the request it is given equals the original in method, URI,
\* Content-Type, every other header and body and differs from it only by
\* the X-Flashbots-Signature header now present, and once the call has
\* completed with the inner service's result the inner service was called
\* exactly once.
C22_OnlyHeaderAdded ==
    ToBeSigned =>
        /\ Len(inner_calls) <= 1
        /\ \A i \in 1..Len(inner_calls) :
              /\ inner_calls[i] = [auth_in EXCEPT !.sig = inner_calls[i].sig]
              /\ inner_calls[i].sig.present
        /\ (Completed /\ Last(auth_results) \in {"Ok", "Err"}) =>
              Len(inner_calls) = 1

\* a signed request with another header, the second URI and the second body
\* was forwarded and the inner service failed
C22_Witness ==
    /\ Completed
    /\ ToBeSigned
    /\ auth_in.other = "x"
    /\ auth_in.uri = 2
    /\ auth_in.body = 2
    /\ Len(inner_calls) = 1
    /\ inner_calls[1].sig.present
    /\ inner_calls[1].body = 2
    /\ Last(auth_results) = "Err"

\* C23: when the body cannot be collected or the signer fails to sign, the
\* call completes with an error value (not a panic), the inner service has
\* not been called for that request, and the service accepts a later call.
C23_FailureIsErrorValue ==
    [][(AuthCollect(FALSE) \/ AuthSign(FALSE)) =>
          /\ Last(auth_results') = "Err"
          /\ inner_calls' = <<>>
          /\ auth_phase' = "idle"]_vars

\* ========================================================================
\* The mappers: EventSourceMap and ExecutorMap
\* ========================================================================
\* number of events the inner stream yields
MaxMapEvents == 3
\* number of execute() calls
MaxMapActions == 2

\* what the mappers' actions leave unchanged
notMapVars == <<engineVars, sseVars, authVars, serdeVars, appVars>>

esmVars == <<esm_pc, esm_f, esm_src, esm_out, esm_err, esm_result>>
exmVars == <<exm_pc, exm_f, exm_calls, exm_inner, exm_results>>

\* EventSourceMap::new(event_source, f)
EsmNew(f) ==
    /\ esm_pc = "none"
    /\ esm_pc' = "new"
    /\ esm_f' = f
    /\ UNCHANGED <<esm_src, esm_out, esm_err, esm_result>>
    /\ UNCHANGED exmVars
    /\ UNCHANGED notMapVars

\* get_event_stream: `self.event_source.get_event_stream().await?`, then
\* `stream.map(f)`; res is what the inner source returns
EsmGetEventStream(res) ==
    /\ esm_pc = "new"
    /\ IF res = OkResult
       THEN /\ esm_pc' = "streaming"
            /\ esm_result' = [kind |-> "Ok", err |-> 0]
            /\ UNCHANGED esm_err
       ELSE /\ esm_pc' = "failed"
            /\ esm_err' = res
            /\ esm_result' = [kind |-> "Err", err |-> res]
    /\ UNCHANGED <<esm_f, esm_src, esm_out>>
    /\ UNCHANGED exmVars
    /\ UNCHANGED notMapVars

\* an item lost by the adapter
MapItemDropped(f, out, e) == out

\* Map::poll_next on Some(e) of the inner stream: yields f(e)
MapItem(f, out, e) == Append(out, f[e])

\* the mapped stream is polled and the inner stream yields e
EsmNextItem(e) ==
    /\ esm_pc = "streaming"
    /\ Len(esm_src) < MaxMapEvents
    /\ esm_src' = Append(esm_src, e)
    /\ esm_out' = MapItem(esm_f, esm_out, e)
    /\ UNCHANGED <<esm_pc, esm_f, esm_err, esm_result>>
    /\ UNCHANGED exmVars
    /\ UNCHANGED notMapVars

\* the mapped stream is polled and the inner stream has ended
EsmEnd ==
    /\ esm_pc = "streaming"
    /\ esm_pc' = "ended"
    /\ UNCHANGED <<esm_f, esm_src, esm_out, esm_err, esm_result>>
    /\ UNCHANGED exmVars
    /\ UNCHANGED notMapVars

\* ExecutorMap::new(executor, f)
ExmNew(f) ==
    /\ exm_pc = "none"
    /\ exm_pc' = "new"
    /\ exm_f' = f
    /\ UNCHANGED <<exm_calls, exm_inner, exm_results>>
    /\ UNCHANGED esmVars
    /\ UNCHANGED notMapVars

\* a wrapper that hands every action to the inner executor
DelegatesAlways(mapped) == TRUE

\* `match action { Some(action) => .., None => .. }`
Delegates(mapped) == mapped # NoneA2

\* execute(action); res is what the inner executor returns if it is called
ExmExecute(action, res) ==
    /\ exm_pc = "new"
    /\ Len(exm_calls) < MaxMapActions
    /\ exm_calls' = Append(exm_calls, action)
    /\ IF Delegates(exm_f[action])
       THEN /\ exm_inner' = Append(exm_inner,
                                   [at |-> Len(exm_calls) + 1,
                                    action |-> exm_f[action], res |-> res])
            /\ exm_results' = Append(exm_results, res)
       ELSE /\ res = OkResult
            /\ exm_results' = Append(exm_results, OkResult)
            /\ UNCHANGED exm_inner
    /\ UNCHANGED <<exm_pc, exm_f>>
    /\ UNCHANGED esmVars
    /\ UNCHANGED notMapVars

EsmNext ==
    \/ \E f \in [E1 -> E2] : EsmNew(f)
    \/ \E res \in Results : EsmGetEventStream(res)
    \/ \E e \in E1 : EsmNextItem(e)
    \/ EsmEnd

\* one EventSourceMap and the consumer of its stream
EsmSpec == Init /\ [][EsmNext]_vars

ExmNext ==
    \/ \E f \in [A1 -> A2 \cup {NoneA2}] : ExmNew(f)
    \/ \E a \in A1, res \in Results : ExmExecute(a, res)

\* one ExecutorMap and its caller
ExmSpec == Init /\ [][ExmNext]_vars

\* ----------------------------------------------------- mapper properties
\* C24: the mapped stream has yielded f(e1), f(e2), ... for exactly the
\* events e1, e2, ... the inner stream has yielded, in the same order and
\* number (what a consumer applying f to the inner stream itself observes),
\* it ends only when the inner stream has ended, and when the inner
\* get_event_stream returns an error the map returns that same error and
\* yields nothing.
C24_MappedStreamIsMapOfStream ==
    /\ Len(esm_out) = Len(esm_src)
    /\ \A i \in 1..Len(esm_src) : esm_out[i] = esm_f[esm_src[i]]
    /\ esm_err # 0 =>
          /\ esm_result = [kind |-> "Err", err |-> esm_err]
          /\ esm_out = <<>>
    /\ esm_result.kind = "Err" => esm_result.err = esm_err
    /\ esm_pc \in {"streaming", "ended"} => esm_result.kind = "Ok"

\* three events went through a function that is not the identity, and the
\* stream has ended
C24_Witness ==
    /\ esm_pc = "ended"
    /\ esm_f = [e \in E1 |-> IF e = 1 THEN 2 ELSE 1]
    /\ esm_src = <<1, 2, 1>>
    /\ esm_out = <<2, 1, 2>>

\* the inner source failed with the second error
C24_WitnessError ==
    /\ esm_pc = "failed"
    /\ esm_err = 2
    /\ esm_result = [kind |-> "Err", err |-> 2]

\* the calls of the inner executor made for the i-th execute()
InnerCallsAt(i) == {k \in 1..Len(exm_inner) : exm_inner[k].at = i}

\* C25: for every execute(a), the inner executor is invoked exactly when
\* f(a) is Some(a2): then once, with a2, and execute returns the inner
\* result (an inner error included); when f(a) is None, execute returns Ok
\* and the inner executor is not invoked; calls reach the inner executor in
\* the order of the execute() calls, and with f always None the inner
\* executor is never invoked.
C25_ExecutorMapDelegates ==
    /\ Len(exm_results) = Len(exm_calls)
    /\ \A i \in 1..Len(exm_calls) :
          IF exm_f[exm_calls[i]] = NoneA2
          THEN /\ InnerCallsAt(i) = {}
               /\ exm_results[i] = OkResult
          ELSE /\ Cardinality(InnerCallsAt(i)) = 1
               /\ \A k \in InnerCallsAt(i) :
                     /\ exm_inner[k].action = exm_f[exm_calls[i]]
                     /\ exm_results[i] = exm_inner[k].res
    /\ \A k \in 1..Len(exm_inner) :
          /\ exm_inner[k].at \in 1..Len(exm_calls)
          /\ \A j \in 1..(k - 1) : exm_inner[j].at < exm_inner[k].at
    /\ (\A a \in A1 : exm_f[a] = NoneA2) => exm_inner = <<>>

\* an action that f drops, then one it maps, for which the inner executor
\* failed
C25_Witness ==
    /\ exm_f = [a \in A1 |-> IF a = 1 THEN NoneA2 ELSE 1]
    /\ exm_calls = <<1, 2>>
    /\ exm_results = <<OkResult, 2>>
    /\ exm_inner = <<[at |-> 2, action |-> 1, res |-> 2]>>

\* two actions went through a map that drops everything
C25_WitnessAlwaysNone ==
    /\ exm_pc = "new"
    /\ \A a \in A1 : exm_f[a] = NoneA2
    /\ Len(exm_calls) = MaxMapActions
    /\ exm_inner = <<>>

\* ========================================================================
\* The MEV-share event types: Event, EventTransaction and their serde
\* ========================================================================
\* length of the strings given for a hex-encoded numeric field
MaxHexLen == 5
\* bits of the unsigned target type T of hex_to_option_unsigned
HexWidth == 8
\* length of the logs and txs arrays
MaxSeqLen == 2

\* the functions are pure: every behaviour applies one of them to one input
\* (and may serialize the event it has deserialized)

\* what the serde functions leave unchanged
notSerdeVars == <<engineVars, sseVars, authVars, mapVars, appVars>>

\* 2^n
RECURSIVE Pow2(_)
Pow2(n) == IF n = 0 THEN 1 ELSE 2 * Pow2(n - 1)

\* T::MAX
MaxValue == Pow2(HexWidth) - 1

\* the characters strings are made of
Chars == {"0", "1", "f", "F", "x", "g", "+", "-"}
HexDigits == {"0", "1", "f", "F"}

\* char::to_digit(16)
DigitValue(c) ==
    CASE c = "0" -> 0
      [] c = "1" -> 1
      [] c = "f" -> 15
      [] c = "F" -> 15

\* all strings of at most n characters
RECURSIVE StringsUpTo(_)
StringsUpTo(n) ==
    IF n = 0 THEN {<<>>}
    ELSE LET shorter == StringsUpTo(n - 1)
         IN  shorter \cup {Append(q, c) : q \in shorter, c \in Chars}

\* JSON values, and JAbsent for a key that is not in the object
JAbsent == [kind |-> "absent", str |-> <<>>, num |-> 0, items |-> <<>>]
JNull == [kind |-> "null", str |-> <<>>, num |-> 0, items |-> <<>>]
JString(q) == [kind |-> "string", str |-> q, num |-> 0, items |-> <<>>]
JNumber(n) == [kind |-> "number", str |-> <<>>, num |-> n, items |-> <<>>]
JArray(q) == [kind |-> "array", str |-> <<>>, num |-> 0, items |-> q]

\* Result: Ok(val) and Err(err)
Ok(v) == [ok |-> TRUE, val |-> v, err |-> "none"]
Err(e) == [ok |-> FALSE, val |-> 0, err |-> e]

\* Option<u64>: None and Some(n)
NoneNum == [some |-> FALSE, n |-> 0]
SomeNum(k) == [some |-> TRUE, n |-> k]

\* an Option deserializer that takes null for a value of the inner type
NullIsSome(v) == FALSE

\* Option::<T>::deserialize: JSON null is None, anything else goes to T
IsNone(v) == v.kind = "null"

\* the digit loop of from_str_radix: checked_mul, checked_add
RECURSIVE Accumulate(_, _)
Accumulate(digits, acc) ==
    IF digits = <<>> THEN Ok(acc)
    ELSE IF Head(digits) \notin HexDigits THEN Err("InvalidDigit")
    ELSE IF acc * 16 + DigitValue(Head(digits)) > MaxValue
         THEN Err("PosOverflow")
    ELSE Accumulate(Tail(digits), acc * 16 + DigitValue(Head(digits)))

\* T::from_str_radix(s, 16) of an unsigned integer type
FromStrRadix16(q) ==
    IF q = <<>> THEN Err("Empty")
    ELSE IF q = <<"+">> \/ q = <<"-">> THEN Err("InvalidDigit")
    ELSE IF Head(q) = "+" THEN Accumulate(Tail(q), 0)
    ELSE Accumulate(q, 0)

\* str::strip_prefix("0x")
HasPrefix0x(q) == Len(q) >= 2 /\ q[1] = "0" /\ q[2] = "x"
StripPrefix0x(q) == SubSeq(q, 3, Len(q))

\* hex_to_option_unsigned on the value of a key that is present
HexToOptionUnsigned(v) ==
    IF IsNone(v) THEN Ok(NoneNum)
    ELSE IF v.kind # "string" THEN Err("invalid type")
    ELSE IF ~HasPrefix0x(v.str) THEN Err("missing 0x prefix")
    ELSE LET parsed == FromStrRadix16(StripPrefix0x(v.str))
         IN  IF parsed.ok THEN Ok(SomeNum(parsed.val)) ELSE Err(parsed.err)

\* the derived visitor's value for a key the object does not have, when the
\* field has deserialize_with (or with) and no default
MissingWithFn(name) == Err("missing field")

\* a field with deserialize_with = "hex_to_option_unsigned"
HexField(v) ==
    IF v.kind = "absent" THEN MissingWithFn("hex") ELSE HexToOptionUnsigned(v)

\* a field of type Option<TxHash> without attributes: absent and null are
\* None
PlainOptionField(v) ==
    IF v.kind \in {"absent", "null"} THEN Ok(NoneNum)
    ELSE IF v.kind = "string" THEN Ok(SomeNum(1))
    ELSE Err("invalid type")

\* the hex-encoded numeric fields of EventTransaction, by their JSON keys
HexFieldNames == {"nonce", "chainId", "gas", "type"}

\* <EventTransaction as Deserialize>::deserialize on a JSON object
DeserializeTransaction(j) ==
    IF ~PlainOptionField(j.hash).ok THEN Err(PlainOptionField(j.hash).err)
    ELSE IF \E k \in HexFieldNames : ~HexField(j[k]).ok
    THEN Err(HexField(j[CHOOSE k \in HexFieldNames :
                             ~HexField(j[k]).ok]).err)
    ELSE Ok([hash |-> PlainOptionField(j.hash).val,
             nonce |-> HexField(j.nonce).val,
             chainId |-> HexField(j.chainId).val,
             gas |-> HexField(j.gas).val,
             type |-> HexField(j.type).val])

\* Option<u64> with skip_serializing_if = "Option::is_none" and no
\* serialize_with: the key is left out, or the number is written
SerializeOptionNum(o) == IF o.some THEN JNumber(o.n) ELSE JAbsent

\* Option<TxHash> with skip_serializing_if = "Option::is_none"
SerializeOptionHash(o) == IF o.some THEN JString(<<"0", "x", "1">>) ELSE JAbsent

\* <EventTransaction as Serialize>::serialize
SerializeTransaction(tx) ==
    [hash |-> SerializeOptionHash(tx.hash),
     nonce |-> SerializeOptionNum(tx.nonce),
     chainId |-> SerializeOptionNum(tx.chainId),
     gas |-> SerializeOptionNum(tx.gas),
     type |-> SerializeOptionNum(tx.type)]

\* <EventTransactionLog as Deserialize>::deserialize: 0 is a malformed log
DeserializeLog(item) == IF item = 0 THEN Err("invalid log") ELSE Ok(item)

\* <EventTransactionLog as Serialize>::serialize
SerializeLog(log) == log

\* T::deserialize on each item of a JSON array, for the two item types
LogResults(q) == [i \in 1..Len(q) |-> DeserializeLog(q[i])]
TxResults(q) == [i \in 1..Len(q) |-> DeserializeTransaction(q[i])]

\* Vec<T>::deserialize on a JSON array, des the results of T::deserialize on
\* its items
DeserializeVec(des) ==
    IF \E i \in 1..Len(des) : ~des[i].ok
    THEN Err("invalid item")
    ELSE Ok([i \in 1..Len(des) |-> des[i].val])

\* null_sequence::deserialize on the value of a key that is present:
\* Option::<Vec<T>>::deserialize(..)?.unwrap_or_default()
NullSequenceDeserialize(v, des) ==
    IF IsNone(v) THEN Ok(<<>>)
    ELSE IF v.kind = "array" THEN DeserializeVec(des)
    ELSE Err("invalid type")

\* a field with with = "null_sequence"
SequenceField(v, des) ==
    IF v.kind = "absent" THEN MissingWithFn("seq")
    ELSE NullSequenceDeserialize(v, des)

\* the field hash: TxHash
HashField(v) ==
    IF v.kind = "string" THEN Ok(1)
    ELSE IF v.kind = "absent" THEN Err("missing field")
    ELSE Err("invalid type")

\* <Event as Deserialize>::deserialize on a JSON object
DeserializeEvent(j) ==
    LET h == HashField(j.hash)
        l == SequenceField(j.logs, LogResults(j.logs.items))
        t == SequenceField(j.txs, TxResults(j.txs.items))
    IN  IF ~h.ok THEN Err(h.err)
        ELSE IF ~l.ok THEN Err(l.err)
        ELSE IF ~t.ok THEN Err(t.err)
        ELSE Ok([hash |-> h.val, logs |-> l.val, transactions |-> t.val])

\* null_sequence::serialize, sers the items of q serialized
NullSequenceSerialize(q, sers) ==
    IF Len(q) = 0 THEN JNull ELSE JArray(sers)

\* <Event as Serialize>::serialize
SerializeEvent(ev) ==
    [hash |-> JString(<<"0", "x", "1">>),
     logs |-> NullSequenceSerialize(
                  ev.logs,
                  [i \in 1..Len(ev.logs) |-> SerializeLog(ev.logs[i])]),
     txs |-> NullSequenceSerialize(
                 ev.transactions,
                 [i \in 1..Len(ev.transactions) |->
                     SerializeTransaction(ev.transactions[i])])]

\* ----------------------------------------------------------------- inputs
\* all sequences over S of at most n elements
RECURSIVE SeqsUpTo(_, _)
SeqsUpTo(S, n) ==
    IF n = 0 THEN {<<>>}
    ELSE LET shorter == SeqsUpTo(S, n - 1)
         IN  shorter \cup {Append(q, x) : q \in shorter, x \in S}

\* the strings given for a hex field
HexStrings == StringsUpTo(MaxHexLen)

\* values of a hex field in a transaction object
SampleHexFields ==
    {JAbsent, JNull, JString(<<"0", "x", "1">>), JString(<<"0", "x", "F", "f">>),
     JString(<<"1", "f">>)}

\* transaction objects
TxJsons ==
    [hash : {JAbsent, JString(<<"0", "x", "1">>)},
     nonce : SampleHexFields, chainId : SampleHexFields,
     gas : SampleHexFields, type : SampleHexFields]

\* a transaction object with every hex field given
FullTx ==
    [hash |-> JAbsent, nonce |-> JString(<<"0", "x", "1">>),
     chainId |-> JString(<<"0", "x", "1">>),
     gas |-> JString(<<"0", "x", "F", "f">>),
     type |-> JString(<<"0", "x", "0">>)]

\* the transaction objects inside an event
SampleTxs == {FullTx, [FullTx EXCEPT !.nonce = JAbsent],
              [FullTx EXCEPT !.gas = JString(<<"f", "f">>)]}

\* values of the key logs and of the key txs
LogsFields ==
    {JAbsent, JNull, JString(<<"x">>)}
        \cup {JArray(q) : q \in SeqsUpTo({0, 1, 2}, MaxSeqLen)}
TxsFields ==
    {JAbsent, JNull, JString(<<"x">>)}
        \cup {JArray(q) : q \in SeqsUpTo(SampleTxs, MaxSeqLen)}

\* event objects
EventJsons ==
    [hash : {JAbsent, JString(<<"0", "x", "1">>)}, logs : LogsFields,
     txs : TxsFields]

\* EventTransaction values
SampleTxValues ==
    {[hash |-> NoneNum, nonce |-> SomeNum(1), chainId |-> SomeNum(1),
      gas |-> SomeNum(255), type |-> SomeNum(0)],
     [hash |-> SomeNum(1), nonce |-> NoneNum, chainId |-> NoneNum,
      gas |-> NoneNum, type |-> NoneNum]}

\* Event values
Events ==
    [hash : {1}, logs : SeqsUpTo({1, 2}, MaxSeqLen),
     transactions : SeqsUpTo(SampleTxValues, MaxSeqLen)]

\* a hex field's deserializer is given a string, or null
DeHex(v) ==
    /\ serde_op = "none"
    /\ serde_op' = "hex_to_option_unsigned"
    /\ serde_in' = v
    /\ serde_out' = HexToOptionUnsigned(v)
    /\ UNCHANGED notSerdeVars

\* a transaction object is deserialized
DeTransaction(j) ==
    /\ serde_op = "none"
    /\ serde_op' = "EventTransaction::deserialize"
    /\ serde_in' = j
    /\ serde_out' = DeserializeTransaction(j)
    /\ UNCHANGED notSerdeVars

\* an event object is deserialized
DeEvent(j) ==
    /\ serde_op = "none"
    /\ serde_op' = "Event::deserialize"
    /\ serde_in' = j
    /\ serde_out' = DeserializeEvent(j)
    /\ UNCHANGED notSerdeVars

\* an event is serialized
SerEvent(ev) ==
    /\ serde_op = "none"
    /\ serde_op' = "Event::serialize"
    /\ serde_in' = ev
    /\ serde_out' = SerializeEvent(ev)
    /\ UNCHANGED notSerdeVars

\* the event just deserialized is serialized again
SerEventBack ==
    /\ serde_op = "Event::deserialize"
    /\ serde_out.ok
    /\ serde_op' = "Event::reserialize"
    /\ serde_in' = serde_out.val
    /\ serde_out' = SerializeEvent(serde_out.val)
    /\ UNCHANGED notSerdeVars

\* ------------------------------------------------------------------------
\* PrivacyHint (crates/kazuka-mev-share-rpc-api/src/types/core.rs)
\* length of the arrays given to PrivacyHint's deserializer
MaxHintLen == 3

\* the tags, in the order serialize writes them
HintTags ==
    <<"calldata", "contract_address", "logs", "function_selector", "hash",
      "tx_hash">>
TagSet == {HintTags[i] : i \in 1..Len(HintTags)}

\* PrivacyHint: one bool per field, the fields named like their tags
PrivacyHints == [TagSet -> BOOLEAN]

\* PrivacyHint::default()
DefaultHint == [t \in TagSet |-> FALSE]

\* <PrivacyHint as Serialize>::serialize: one `if self.x` after the other
SerializeHint(h) ==
    JArray((IF h.calldata THEN <<"calldata">> ELSE <<>>)
           \o (IF h.contract_address THEN <<"contract_address">> ELSE <<>>)
           \o (IF h.logs THEN <<"logs">> ELSE <<>>)
           \o (IF h.function_selector THEN <<"function_selector">> ELSE <<>>)
           \o (IF h.hash THEN <<"hash">> ELSE <<>>)
           \o (IF h.tx_hash THEN <<"tx_hash">> ELSE <<>>))

\* a match whose tx_hash arm sets hash
SetHintTxHashAsHash(h, tag) ==
    [h EXCEPT ![IF tag = "tx_hash" THEN "hash" ELSE tag] = TRUE]

\* the arms of the match in deserialize that set a field
SetHint(h, tag) == [h EXCEPT ![tag] = TRUE]

\* the loop `for hint in hints` of deserialize
RECURSIVE ApplyHints(_, _)
ApplyHints(hints, h) ==
    IF hints = <<>> THEN Ok(h)
    ELSE IF Head(hints) \notin TagSet THEN Err("invalid privacy hint")
    ELSE ApplyHints(Tail(hints), SetHint(h, Head(hints)))

\* <PrivacyHint as Deserialize>::deserialize
DeserializeHint(v) ==
    IF v.kind # "array" THEN Err("invalid type")
    ELSE ApplyHints(v.items, DefaultHint)

\* the arrays given to deserialize: tags and a string that is no tag
HintArrays == {JArray(q) : q \in SeqsUpTo(TagSet \cup {"other"}, MaxHintLen)}

\* a PrivacyHint is serialized
SerHint(h) ==
    /\ serde_op = "none"
    /\ serde_op' = "PrivacyHint::serialize"
    /\ serde_in' = h
    /\ serde_out' = SerializeHint(h)
    /\ UNCHANGED notSerdeVars

\* the array just written is deserialized
DeHintBack ==
    /\ serde_op = "PrivacyHint::serialize"
    /\ serde_op' = "PrivacyHint::roundtrip"
    /\ serde_out' = DeserializeHint(serde_out)
    /\ UNCHANGED serde_in
    /\ UNCHANGED notSerdeVars

\* an array of strings is deserialized
DeHint(v) ==
    /\ serde_op = "none"
    /\ serde_op' = "PrivacyHint::deserialize"
    /\ serde_in' = v
    /\ serde_out' = DeserializeHint(v)
    /\ UNCHANGED notSerdeVars

SerdeNext ==
    \/ /\ serde_op = "none"
       /\ \/ \E v \in {JNull} \cup {JString(q) : q \in HexStrings} : DeHex(v)
          \/ \E j \in TxJsons : DeTransaction(j)
          \/ \E j \in EventJsons : DeEvent(j)
          \/ \E ev \in Events : SerEvent(ev)
          \/ \E h \in PrivacyHints : SerHint(h)
          \/ \E v \in HintArrays : DeHint(v)
    \/ SerEventBack
    \/ DeHintBack

SerdeSpec == Init /\ [][SerdeNext]_vars

\* ------------------------------------------------------- serde properties
\* an event object with a hash has been deserialized
EventDeserialized ==
    /\ serde_op = "Event::deserialize"
    /\ serde_in.hash.kind = "string"

\* C26: an event JSON whose logs and txs are null deserializes to an Event
\* whose logs and transactions are empty; and whenever an event JSON
\* deserializes, a null logs or txs has become an empty sequence.
C26_NullSequencesAreEmpty ==
    EventDeserialized =>
        /\ (serde_in.logs.kind = "null" /\ serde_in.txs.kind = "null") =>
              /\ serde_out.ok
              /\ serde_out.val.logs = <<>>
              /\ serde_out.val.transactions = <<>>
        /\ (serde_out.ok /\ serde_in.logs.kind = "null") =>
              serde_out.val.logs = <<>>
        /\ (serde_out.ok /\ serde_in.txs.kind = "null") =>
              serde_out.val.transactions = <<>>

\* logs and txs were both null
C26_Witness ==
    /\ EventDeserialized
    /\ serde_in.logs.kind = "null"
    /\ serde_in.txs.kind = "null"
    /\ serde_out.ok
    /\ serde_out.val.logs = <<>>
    /\ serde_out.val.transactions = <<>>

\* logs was null next to two transactions
C26_WitnessOneNull ==
    /\ EventDeserialized
    /\ serde_in.logs.kind = "null"
    /\ serde_in.txs.kind = "array"
    /\ serde_out.ok
    /\ serde_out.val.logs = <<>>
    /\ Len(serde_out.val.transactions) = 2

\* an event has been serialized
EventSerialized == serde_op \in {"Event::serialize", "Event::reserialize"}

\* C27: serializing an Event whose logs or transactions sequence is empty
\* (one obtained by deserializing null included) does not emit an explicit
\* null for that field.
C27_EmptyNotSerializedAsNull ==
    EventSerialized =>
        /\ serde_in.logs = <<>> => serde_out.logs.kind # "null"
        /\ serde_in.transactions = <<>> => serde_out.txs.kind # "null"

\* the key is absent, or null
AbsentOrNull(v) == v.kind \in {"absent", "null"}

\* C28: an event JSON in which the logs key or the txs key is absent
\* deserializes successfully to an Event with that sequence empty.
C28_AbsentSequencesAreEmpty ==
    EventDeserialized =>
        /\ (serde_in.logs.kind = "absent" /\ AbsentOrNull(serde_in.txs)) =>
              /\ serde_out.ok
              /\ serde_out.val.logs = <<>>
        /\ (serde_in.txs.kind = "absent" /\ AbsentOrNull(serde_in.logs)) =>
              /\ serde_out.ok
              /\ serde_out.val.transactions = <<>>

\* C29: for each of nonce, chainId, gas and type, a transaction object in
\* which the field is absent (and the other three are absent, null or
\* prefixed hex) deserializes successfully with that field None.
C29_AbsentHexFieldIsNone ==
    serde_op = "EventTransaction::deserialize" =>
        \A k \in HexFieldNames :
            (/\ serde_in[k].kind = "absent"
             /\ \A o \in HexFieldNames \ {k} :
                   \/ AbsentOrNull(serde_in[o])
                   \/ /\ serde_in[o].kind = "string"
                      /\ HasPrefix0x(serde_in[o].str)) =>
                /\ serde_out.ok
                /\ serde_out.val[k] = NoneNum

\* the number a string of hex digits denotes
RECURSIVE HexNumber(_)
HexNumber(q) ==
    IF q = <<>> THEN 0
    ELSE 16 * HexNumber(SubSeq(q, 1, Len(q) - 1)) + DigitValue(q[Len(q)])

\* "0x", then one or more hex digits of either case, denoting a number that
\* fits the target width
PrefixedHexThatFits(q) ==
    /\ Len(q) >= 3
    /\ q[1] = "0"
    /\ q[2] = "x"
    /\ \A i \in 3..Len(q) : q[i] \in HexDigits
    /\ HexNumber(SubSeq(q, 3, Len(q))) <= MaxValue

\* C30: a string given for a hex-encoded numeric field is accepted exactly
\* when it is 0x followed by hex digits of either case that fit the target
\* width, and then parses to the number the digits denote; a string without
\* the 0x prefix yields an error, never a number.
C30_HexAcceptedExactlyWhenPrefixedHex ==
    (serde_op = "hex_to_option_unsigned" /\ serde_in.kind = "string") =>
        /\ serde_out.ok <=> PrefixedHexThatFits(serde_in.str)
        /\ serde_out.ok =>
              serde_out.val =
                  SomeNum(HexNumber(SubSeq(serde_in.str, 3, Len(serde_in.str))))
        /\ ~HasPrefix0x(serde_in.str) => ~serde_out.ok

\* C31: for each of the 64 PrivacyHint values, the serialized array lists
\* the enabled tags in the fixed order calldata, contract_address, logs,
\* function_selector, hash, tx_hash, deserializing that array yields the
\* original PrivacyHint, and an array of strings deserializes exactly when
\* every string is one of the six tags.
C31_PrivacyHintRoundTrip ==
    /\ serde_op = "PrivacyHint::serialize" =>
          serde_out = JArray(SelectSeq(HintTags, LAMBDA t : serde_in[t]))
    /\ serde_op = "PrivacyHint::roundtrip" => serde_out = Ok(serde_in)
    /\ serde_op = "PrivacyHint::deserialize" =>
          (serde_out.ok <=>
              \A i \in 1..Len(serde_in.items) : serde_in.items[i] \in TagSet)

\* calldata, logs and hash went through serialize and deserialize
C31_Witness ==
    /\ serde_op = "PrivacyHint::roundtrip"
    /\ serde_in = [t \in TagSet |-> t \in {"calldata", "logs", "hash"}]
    /\ serde_out = Ok(serde_in)

\* all six tags were written
C31_WitnessAll ==
    /\ serde_op = "PrivacyHint::serialize"
    /\ \A t \in TagSet : serde_in[t]
    /\ serde_out.items = HintTags

\* an array with a string that is no tag was refused
C31_WitnessUnknown ==
    /\ serde_op = "PrivacyHint::deserialize"
    /\ serde_in.items = <<"hash", "other">>
    /\ ~serde_out.ok

\* C36: every GET a stream sends after its first one (a reconnect the server
\* directed, or a manual retry / retry_with) carries the same query
\* parameters as the GET before it, hence as the GET of the subscription.
C36_ReconnectKeepsQuery ==
    [][(ngets' # ngets /\ lastGet'.by # "subscribe") =>
           lastGet'.query = lastGet.query]_vars

\* the latest request carries the header an AuthService put on it
SignedByAuthService ==
    \E a \in Signers : auth_in.sig = SignedBy(a, auth_in.body)

\* C37: a request an AuthService has already signed, given to an AuthService
\* (whose signer is the same one or another), reaches the inner service at
\* most once and unchanged, with the first signature header intact; the
\* signer is asked for no second signature; once the call has completed the
\* inner service was called exactly once.
C37_SignedRequestPassesThrough ==
    SignedByAuthService =>
        /\ signer_calls = <<>>
        /\ Len(inner_calls) <= 1
        /\ \A i \in 1..Len(inner_calls) :
              /\ inner_calls[i] = auth_in
              /\ inner_calls[i].sig = auth_in.sig
        /\ auth_phase \in {"idle", "pass"}
        /\ Completed => inner_calls = <<auth_in>>

\* a request signed by a service with another signer went through
C37_Witness ==
    /\ Completed
    /\ auth_in.sig = SignedBy(2, auth_in.body)
    /\ SignerAddress # 2
    /\ inner_calls = <<auth_in>>
    /\ signer_calls = <<>>

\* a request signed by a service with the same signer went through
C37_WitnessSameSigner ==
    /\ Completed
    /\ auth_in.sig = SignedBy(SignerAddress, auth_in.body)
    /\ inner_calls = <<auth_in>>
    /\ signer_calls = <<>>

\* ========================================================================
\* The arbitrage strategy: MevShareUniswapV2V3Arbitrage
\* ========================================================================
\* number of distinct pool addresses
MaxAddrs == 2
\* number of logs of an event
MaxLogs == 2
\* number of distinct transaction hashes
MaxHashes == 2
\* highest block number the provider answers
MaxBlock == 1

\* what the strategy's actions leave unchanged
notArbVars ==
    <<engineVars, sseVars, authVars, mapVars, serdeVars, mevVars, memVars>>

Addrs == 1..MaxAddrs
Hashes == 1..MaxHashes
Blocks == 0..MaxBlock

\* the sizes of the backruns, as the exponents of the powers of ten
\* 10^5 .. 10^18 in the order of the vector
Sizes == <<5, 6, 7, 8, 9, 10, 11, 12, 13, 14, 15, 16, 17, 18>>

\* the contents of the CSV file: V3 pool address -> is_weth_token0 of its
\* V2 pool (addresses that occur twice keep the last record)
PoolMaps == UNION {[keys -> BOOLEAN] : keys \in SUBSET Addrs}

\* MEV-share events: the hash and the addresses of the logs
ArbEvents ==
    [hash : Hashes,
     logs : UNION {[1..n -> Addrs] : n \in 0..MaxLogs}]

\* Bytes::from_static(b"sample-tx")
SampleTx == [bytes |-> "sample-tx", v3 |-> 0, weth0 |-> FALSE, size |-> 0]

\* the bytes generate_arbitrage_tx returns: the signed call of
\* execute_weth_token0 / execute_weth_token1 for this pool and size
SignedTx(v3, weth0, size) ==
    [bytes |-> "signed", v3 |-> v3, weth0 |-> weth0, size |-> size]

\* BundleItem::Hash { hash }
HashItem(h) == [item |-> "Hash", hash |-> h, tx |-> SampleTx, can_revert |-> FALSE]

\* BundleItem::Tx { tx, can_revert: false }
TxItem(tx) == [item |-> "Tx", hash |-> 0, tx |-> tx, can_revert |-> FALSE]

\* a validity window that ends 25 blocks after the current one
MaxBlockOf25(b) == SomeBlock(b + 25)

\* Some(block_num.add(30))
MaxBlockOf(b) == SomeBlock(b + 30)

\* the MevSendBundle built in one iteration of the loop
Bundle(h, b, tx) ==
    [protocol_version |-> "v0.1",
     inclusion |-> [block |-> b + 1, max_block |-> MaxBlockOf(b)],
     bundle_body |-> <<HashItem(h), TxItem(tx)>>,
     validity |-> "None", privacy |-> "None"]

\* Action::SubmitBundle
SubmitBundle(bundle) == [action |-> "SubmitBundle", bundle |-> bundle]

\* bundles.into_iter().map(Action::SubmitBundle).collect()
SubmitAll(bundles) == [i \in 1..Len(bundles) |-> SubmitBundle(bundles[i])]

\* a test that looks for a mapped pool among all the logs
AnyLogMatches(ev, pools) ==
    \E i \in 1..Len(ev.logs) : ev.logs[i] \in DOMAIN pools

\* the event has logs and the address of logs[0] is a key of the map
FirstLogMatches(ev, pools) ==
    ev.logs # <<>> /\ ev.logs[1] \in DOMAIN pools

\* an error arm that hands out what was built before the failure
OnErrorPartial(bundles) == SubmitAll(bundles)

\* the Err arm of process_event: `vec![]`
OnError(bundles) == <<>>

\* MevShareUniswapV2V3Arbitrage::new
ArbNew(dry) ==
    /\ arb_pc = "none"
    /\ arb_pc' = "new"
    /\ arb_dry_run' = dry
    /\ arb_pools' = <<>>
    /\ UNCHANGED <<arb_event, arb_block, arb_i, arb_bundles, arb_rpc, arb_out>>
    /\ UNCHANGED notArbVars

\* sync_state: the records read are inserted; a CSV error returns Err and
\* the engine does not run the strategy
ArbSyncState(csv, ok) ==
    /\ arb_pc = "new"
    /\ arb_pools' = csv
    /\ arb_pc' = IF ok THEN "idle" ELSE "failed"
    /\ UNCHANGED <<arb_dry_run, arb_event, arb_block, arb_i, arb_bundles,
                   arb_rpc, arb_out>>
    /\ UNCHANGED notArbVars

\* process_event up to its first await: the two early returns, or the call
\* of generate_bundles up to get_block_number()
ArbProcessEvent(ev) ==
    /\ arb_pc = "idle"
    /\ arb_event' = ev
    /\ arb_rpc' = <<>>
    /\ arb_bundles' = <<>>
    /\ arb_block' = 0
    /\ arb_i' = 0
    /\ arb_out' = <<>>
    /\ arb_pc' = IF FirstLogMatches(ev, arb_pools) THEN "get_block_number"
                 ELSE "idle"
    /\ UNCHANGED <<arb_dry_run, arb_pools>>
    /\ UNCHANGED notArbVars

\* get_block_number().await? answers: an error returns through the Err arm;
\* in dry-run the loop has no await and builds every bundle; otherwise the
\* loop stops at the first generate_arbitrage_tx
ArbGetBlockNumber(ok, b) ==
    /\ arb_pc = "get_block_number"
    /\ arb_rpc' = Append(arb_rpc, [call |-> "get_block_number", ok |-> ok])
    /\ IF ~ok
       THEN /\ arb_out' = OnError(arb_bundles)
            /\ arb_pc' = "idle"
            /\ UNCHANGED <<arb_block, arb_i, arb_bundles>>
       ELSE IF arb_dry_run
       THEN /\ arb_block' = b
            /\ arb_i' = Len(Sizes)
            /\ arb_bundles' =
                   [i \in 1..Len(Sizes) |-> Bundle(arb_event.hash, b, SampleTx)]
            /\ arb_out' = SubmitAll(arb_bundles')
            /\ arb_pc' = "idle"
       ELSE /\ arb_block' = b
            /\ arb_i' = 1
            /\ arb_pc' = "generate_arbitrage_tx"
            /\ UNCHANGED <<arb_bundles, arb_out>>
    /\ UNCHANGED <<arb_dry_run, arb_pools, arb_event>>
    /\ UNCHANGED notArbVars

\* the provider calls generate_arbitrage_tx makes for an outcome
TxCalls(res) ==
    IF res = "GasPriceErr"
    THEN <<[call |-> "get_gas_price", ok |-> FALSE]>>
    ELSE <<[call |-> "get_gas_price", ok |-> TRUE],
           [call |-> "sign_transaction", ok |-> res = "Ok"]>>

\* generate_arbitrage_tx(v3_address, v2_pool_info, size).await? answers for
\* the size the loop is at: the bundle is pushed and the loop goes on to the
\* next size or returns Ok(bundles); an error returns through the Err arm
ArbGenerateTx(res) ==
    /\ arb_pc = "generate_arbitrage_tx"
    /\ arb_rpc' = arb_rpc \o TxCalls(res)
    /\ IF res = "Ok"
       THEN /\ arb_bundles' =
                   Append(arb_bundles,
                          Bundle(arb_event.hash, arb_block,
                                 SignedTx(arb_event.logs[1],
                                          arb_pools[arb_event.logs[1]],
                                          Sizes[arb_i])))
            /\ IF arb_i = Len(Sizes)
               THEN /\ arb_out' = SubmitAll(arb_bundles')
                    /\ arb_pc' = "idle"
                    /\ UNCHANGED arb_i
               ELSE /\ arb_i' = arb_i + 1
                    /\ UNCHANGED <<arb_out, arb_pc>>
       ELSE /\ arb_out' = OnError(arb_bundles)
            /\ arb_pc' = "idle"
            /\ UNCHANGED <<arb_i, arb_bundles>>
    /\ UNCHANGED <<arb_dry_run, arb_pools, arb_event, arb_block>>
    /\ UNCHANGED notArbVars

ArbNext ==
    \/ \E dry \in BOOLEAN : ArbNew(dry)
    \/ \E csv \in PoolMaps, ok \in BOOLEAN : ArbSyncState(csv, ok)
    \/ \E ev \in ArbEvents : ArbProcessEvent(ev)
    \/ \E ok \in BOOLEAN, b \in Blocks : ArbGetBlockNumber(ok, b)
    \/ \E res \in {"Ok", "GasPriceErr", "SignErr"} : ArbGenerateTx(res)

ArbSpec == Init /\ [][ArbNext]_vars

\* ----------------------------------------------------- strategy properties
\* process_event has returned for arb_event
ArbReturned == arb_pc = "idle" /\ arb_event # NoArbEvent

\* C32: process_event returns no actions, and calls nothing, when the event
\* has no logs and when the address of its first log is not a key of the
\* pool map, even if a later log's address is one.
C32_OnlyFirstLogExamined ==
    (\/ arb_event.logs = <<>>
     \/ arb_event.logs[1] \notin DOMAIN arb_pools) =>
        /\ arb_pc \in {"none", "new", "failed", "idle"}
        /\ arb_out = <<>>
        /\ arb_rpc = <<>>

\* an event whose second log is of a mapped pool and whose first is not was
\* ignored
C32_Witness ==
    /\ ArbReturned
    /\ Len(arb_event.logs) = 2
    /\ arb_event.logs[1] \notin DOMAIN arb_pools
    /\ arb_event.logs[2] \in DOMAIN arb_pools
    /\ arb_out = <<>>

\* an event without logs was ignored by a strategy that has pools
C32_WitnessNoLogs ==
    /\ ArbReturned
    /\ arb_event.logs = <<>>
    /\ DOMAIN arb_pools # {}
    /\ arb_out = <<>>

\* the event's first log is of a mapped pool
ArbMatched == FirstLogMatches(arb_event, arb_pools)

\* the provider answered get_block_number with a block number
BlockNumberKnown ==
    arb_rpc # <<>> /\ arb_rpc[1] = [call |-> "get_block_number", ok |-> TRUE]

\* C33: in dry-run mode, for an event whose first log's address is a mapped
\* V3 pool and current block number b, process_event returns exactly 14
\* SubmitBundle actions, each with protocol version v0.1, inclusion.block =
\* b+1, max_block = b+30, body[0] = Hash{event.hash} and body[1] =
\* Tx{placeholder bytes, can_revert = false}.
C33_DryRunBundles ==
    (arb_dry_run /\ ArbReturned /\ ArbMatched /\ BlockNumberKnown) =>
        /\ Len(arb_out) = 14
        /\ \A i \in 1..Len(arb_out) :
              /\ arb_out[i].action = "SubmitBundle"
              /\ arb_out[i].bundle.protocol_version = "v0.1"
              /\ arb_out[i].bundle.inclusion.block = arb_block + 1
              /\ arb_out[i].bundle.inclusion.max_block.some
              /\ arb_out[i].bundle.inclusion.max_block.val = arb_block + 30
              /\ Len(arb_out[i].bundle.bundle_body) = 2
              /\ arb_out[i].bundle.bundle_body[1].item = "Hash"
              /\ arb_out[i].bundle.bundle_body[1].hash = arb_event.hash
              /\ arb_out[i].bundle.bundle_body[2].item = "Tx"
              /\ arb_out[i].bundle.bundle_body[2].tx.bytes = "sample-tx"
              /\ ~arb_out[i].bundle.bundle_body[2].can_revert

\* a dry-run strategy returned its bundles for the second hash at block 1,
\* the pool being that of the first of two logs
C33_Witness ==
    /\ arb_dry_run
    /\ ArbReturned
    /\ ArbMatched
    /\ BlockNumberKnown
    /\ arb_block = 1
    /\ arb_event.hash = 2
    /\ Len(arb_event.logs) = 2
    /\ Len(arb_out) = 14
    /\ arb_out[14].bundle.inclusion.max_block = SomeBlock(31)

\* C34: in dry-run mode the strategy makes no call to the provider while it
\* processes an event.
C34_DryRunMakesNoRpc ==
    arb_dry_run => arb_rpc = <<>>

\* one of the provider calls made for the event failed
SomeCallFailed == \E k \in 1..Len(arb_rpc) : ~arb_rpc[k].ok

\* C38: for an event of a mapped pool, process_event returns the empty list
\* when get_block_number or the transaction of any one of the 14 sizes
\* failed, never the bundles built before the failure; otherwise it returns
\* 14 bundles, the i-th built for the i-th size of 10^5, 10^6, .. 10^18.
C38_AllOrNothing ==
    /\ Len(arb_out) \in {0, 14}
    /\ (ArbReturned /\ ArbMatched) =>
          IF SomeCallFailed
          THEN arb_out = <<>>
          ELSE /\ Len(arb_out) = 14
               /\ ~arb_dry_run =>
                     \A i \in 1..Len(arb_out) :
                        /\ arb_out[i].bundle.bundle_body[2].tx.bytes = "signed"
                        /\ arb_out[i].bundle.bundle_body[2].tx.size = 4 + i

\* the signing of the transaction of the last size failed after thirteen
\* bundles were built, and nothing was returned
C38_Witness ==
    /\ ArbReturned
    /\ ArbMatched
    /\ ~arb_dry_run
    /\ Len(arb_bundles) = 13
    /\ arb_rpc[Len(arb_rpc)] = [call |-> "sign_transaction", ok |-> FALSE]
    /\ arb_out = <<>>

\* every transaction was generated and the 14 bundles were returned
C38_WitnessAll ==
    /\ ArbReturned
    /\ ArbMatched
    /\ ~arb_dry_run
    /\ ~SomeCallFailed
    /\ Len(arb_out) = 14
    /\ arb_out[1].bundle.bundle_body[2].tx.size = 5
    /\ arb_out[14].bundle.bundle_body[2].tx.size = 18

\* get_block_number failed and nothing was returned
C38_WitnessBlockNumber ==
    /\ ArbReturned
    /\ ArbMatched
    /\ arb_rpc = <<[call |-> "get_block_number", ok |-> FALSE]>>
    /\ arb_out = <<>>

\* ========================================================================
\* The bundle executor: MevShareExecutor::execute
\* ========================================================================
\* number of bundles given to execute
MaxMevCalls == 2

\* what the executor's actions leave unchanged
notMevVars ==
    <<engineVars, sseVars, authVars, mapVars, serdeVars, arbVars, memVars>>

\* the bundles the strategy can have built
MevBundles ==
    {Bundle(h, b, tx) : h \in Hashes, b \in Blocks,
                        tx \in {SampleTx, SignedTx(1, TRUE, Sizes[1])}}

\* a result that hands the relay's error on
ResultOfRelay(answered) == IF answered THEN "Ok" ELSE "Err"

\* the `Ok(())` after the match that logs the relay's answer
ResultOf(answered) == "Ok"

\* MevShareExecutor::new
MevNew(dry) ==
    /\ mev_pc = "none"
    /\ mev_pc' = "idle"
    /\ mev_dry_run' = dry
    /\ UNCHANGED <<mev_in, mev_sent, mev_answers, mev_results>>
    /\ UNCHANGED notMevVars

\* execute(action) up to its await: in dry-run it logs and returns Ok(());
\* otherwise it calls send_bundle(action)
MevExecute(action) ==
    /\ mev_pc = "idle"
    /\ Len(mev_results) < MaxMevCalls
    /\ mev_in' = action
    /\ IF mev_dry_run
       THEN /\ mev_results' = Append(mev_results, "Ok")
            /\ UNCHANGED <<mev_pc, mev_sent>>
       ELSE /\ mev_sent' = Append(mev_sent, action)
            /\ mev_pc' = "send_bundle"
            /\ UNCHANGED mev_results
    /\ UNCHANGED <<mev_dry_run, mev_answers>>
    /\ UNCHANGED notMevVars

\* send_bundle(action).await answers with a result or an error: it is
\* logged and execute returns
MevRelayAnswer(answered) ==
    /\ mev_pc = "send_bundle"
    /\ mev_answers' = Append(mev_answers, IF answered THEN "Ok" ELSE "Err")
    /\ mev_results' = Append(mev_results, ResultOf(answered))
    /\ mev_pc' = "idle"
    /\ UNCHANGED <<mev_dry_run, mev_in, mev_sent>>
    /\ UNCHANGED notMevVars

MevNext ==
    \/ \E dry \in BOOLEAN : MevNew(dry)
    \/ \E action \in MevBundles : MevExecute(action)
    \/ \E answered \in BOOLEAN : MevRelayAnswer(answered)

MevSpec == Init /\ [][MevNext]_vars

\* ----------------------------------------------------- executor properties
\* C35: execute returns Ok(()) for every bundle: in dry-run send_bundle is
\* never called; otherwise every execute calls send_bundle exactly once, with
\* the bundle it was given, and returns Ok(()) whether the relay answered
\* with a result or with an error.
C35_ExecuteAlwaysOk ==
    /\ \A i \in 1..Len(mev_results) : mev_results[i] = "Ok"
    /\ mev_dry_run => mev_sent = <<>> /\ mev_pc # "send_bundle"
    /\ ~mev_dry_run =>
          /\ Len(mev_answers) = Len(mev_results)
          /\ Len(mev_sent) =
                Len(mev_results) + (IF mev_pc = "send_bundle" THEN 1 ELSE 0)
          /\ mev_sent # <<>> => mev_sent[Len(mev_sent)] = mev_in

\* the relay refused a bundle and then accepted one; both calls returned Ok
C35_Witness ==
    /\ ~mev_dry_run
    /\ mev_pc = "idle"
    /\ mev_answers = <<"Err", "Ok">>
    /\ mev_results = <<"Ok", "Ok">>
    /\ Len(mev_sent) = 2

\* a dry-run executor returned Ok twice and sent nothing
C35_WitnessDryRun ==
    /\ mev_dry_run
    /\ mev_in # NoBundle
    /\ mev_results = <<"Ok", "Ok">>
    /\ mev_sent = <<>>

\* ========================================================================
\* The mempool executor: MempoolExecutor::execute
\* ========================================================================
\* width of U128 in the model, in bits: the arithmetic is that of the 128-bit
\* type at a width whose values can be enumerated
U128Bits == 7
\* highest gas estimate the provider answers
MaxGas == 3
\* number of distinct transactions
MaxTxs == 1

\* what the mempool executor's actions leave unchanged
notMemVars ==
    <<engineVars, sseVars, authVars, mapVars, serdeVars, arbVars, mevVars>>

\* U128::MAX
U128Max == Pow2(U128Bits) - 1

U128Values == 0..U128Max

\* the percentages tried
Percentages == {0, 40, 100, 200}

\* the gas prices the provider answers
MarketPrices == {0, 7, U128Max}

\* Some(GasBidInfo { expected_profit, bid_percentage })
SomeGasBidInfo(profit, pct) ==
    [some |-> TRUE, expected_profit |-> profit, bid_percentage |-> pct]

\* the actions given to execute
SubmitTxs ==
    [tx : 1..MaxTxs,
     gas_bid_info : {NoGasBidInfo} \cup
                    {SomeGasBidInfo(p, c) : p \in U128Values, c \in Percentages}]

\* a product computed without the limit of the width
MulUnbounded(x, y) == x * y

\* U128 `mul`: the product modulo 2^128
WrappingMul(x, y) == (x * y) % Pow2(U128Bits)

\* expected_profit / U128::from(gas_usage), for gas_usage > 0
BreakevenGasPrice(info, gas_usage) == info.expected_profit \div gas_usage

\* breakeven_gas_price.mul(bid_percentage).div(100)
BidGasPrice(info, gas_usage) ==
    WrappingMul(BreakevenGasPrice(info, gas_usage), info.bid_percentage)
        \div 100

\* the future returned by execute has completed
MemDone(res) ==
    /\ mem_result' = res
    /\ mem_pc' = "idle"

\* execute(action) up to estimate_gas(action.tx)
MemExecute(action) ==
    /\ mem_pc = "idle"
    /\ mem_in' = action
    /\ mem_pc' = "estimate_gas"
    /\ mem_gas_usage' = 0
    /\ mem_market' = 0
    /\ mem_gas_price' = 0
    /\ mem_sent' = <<>>
    /\ mem_result' = "none"
    /\ UNCHANGED notMemVars

\* estimate_gas(..).await? answers: an error is returned; with gas-bid info
\* the bid is computed (a zero estimate panics in the division) and the
\* transaction is sent; without it the market gas price is asked for
MemEstimateGas(ok, gas_usage) ==
    /\ mem_pc = "estimate_gas"
    /\ IF ~ok
       THEN /\ MemDone("Err")
            /\ UNCHANGED <<mem_gas_usage, mem_gas_price>>
       ELSE /\ mem_gas_usage' = gas_usage
            /\ IF ~mem_in.gas_bid_info.some
               THEN /\ mem_pc' = "get_gas_price"
                    /\ UNCHANGED <<mem_gas_price, mem_result>>
               ELSE IF gas_usage = 0
               THEN /\ MemDone("panic")
                    /\ UNCHANGED mem_gas_price
               ELSE /\ mem_gas_price' = BidGasPrice(mem_in.gas_bid_info, gas_usage)
                    /\ mem_pc' = "send_transaction"
                    /\ UNCHANGED mem_result
    /\ UNCHANGED <<mem_in, mem_market, mem_sent>>
    /\ UNCHANGED notMemVars

\* get_gas_price().await? answers: an error is returned, a price is set on
\* the transaction, which is sent
MemGetGasPrice(ok, price) ==
    /\ mem_pc = "get_gas_price"
    /\ IF ok
       THEN /\ mem_market' = price
            /\ mem_gas_price' = price
            /\ mem_pc' = "send_transaction"
            /\ UNCHANGED mem_result
       ELSE /\ MemDone("Err")
            /\ UNCHANGED <<mem_market, mem_gas_price>>
    /\ UNCHANGED <<mem_in, mem_gas_usage, mem_sent>>
    /\ UNCHANGED notMemVars

\* send_transaction(tx).await? answers
MemSendTransaction(ok) ==
    /\ mem_pc = "send_transaction"
    /\ mem_sent' = Append(mem_sent, [tx |-> mem_in.tx,
                                     gas_price |-> mem_gas_price])
    /\ MemDone(IF ok THEN "Ok" ELSE "Err")
    /\ UNCHANGED <<mem_in, mem_gas_usage, mem_market, mem_gas_price>>
    /\ UNCHANGED notMemVars

MemNext ==
    \/ \E action \in SubmitTxs : MemExecute(action)
    \/ \E ok \in BOOLEAN, g \in 0..MaxGas : MemEstimateGas(ok, g)
    \/ \E ok \in BOOLEAN, p \in MarketPrices : MemGetGasPrice(ok, p)
    \/ \E ok \in BOOLEAN : MemSendTransaction(ok)

MempoolSpec == Init /\ [][MemNext]_vars

\* ---------------------------------------------- mempool executor properties
\* the gas estimate has arrived and is positive
GasEstimated ==
    /\ mem_in # NoSubmitTx
    /\ mem_gas_usage > 0

\* C39: with gas-bid info and a positive gas estimate, the gas price of the
\* submitted transaction is floor(floor(expected_profit / gas_usage) *
\* bid_percentage / 100), which for bid_percentage <= 100 does not exceed
\* floor(expected_profit / gas_usage); the product stays within the width of
\* U128 and execute does not panic.  Without gas-bid info the gas price is
\* the one the provider answered.
C39_GasPriceIsShareOfBreakeven ==
    /\ (GasEstimated /\ mem_in.gas_bid_info.some) =>
          /\ mem_result # "panic"
          /\ mem_pc \in {"send_transaction", "idle"}
          /\ MulUnbounded(BreakevenGasPrice(mem_in.gas_bid_info, mem_gas_usage),
                          mem_in.gas_bid_info.bid_percentage) <= U128Max
          /\ mem_gas_price =
                MulUnbounded(BreakevenGasPrice(mem_in.gas_bid_info,
                                               mem_gas_usage),
                             mem_in.gas_bid_info.bid_percentage) \div 100
          /\ mem_in.gas_bid_info.bid_percentage <= 100 =>
                mem_gas_price <= mem_in.gas_bid_info.expected_profit
                                    \div mem_gas_usage
          /\ \A i \in 1..Len(mem_sent) : mem_sent[i].gas_price = mem_gas_price
    /\ (mem_in # NoSubmitTx /\ ~mem_in.gas_bid_info.some) =>
          /\ mem_result # "panic"
          /\ mem_gas_price = mem_market
          /\ \A i \in 1..Len(mem_sent) : mem_sent[i].gas_price = mem_market

====
